---- MODULE Spec2Model ----
(***************************************************************************)
(* Model of share.py: the LAN file-sharing HTTP server.                    *)
(*                                                                         *)
(* Text (request paths, headers, file names, sentinel contents) is a      *)
(* sequence of one-character strings, so that prefix tests, regular       *)
(* expressions, percent-decoding and decimal formatting are computed the  *)
(* way the Python code computes them.  Paths follow posixpath.            *)
(***************************************************************************)
EXTENDS Integers, Sequences, FiniteSets, TLC

\* ------------------------------------------------------------------------
\* Bounds of the model
\* ------------------------------------------------------------------------
\* number of path segments after /share<N>/ in an enumerated request path
MaxSegs == 2
\* number of files and directories the create/upload calls may add
MaxCreated == 1
\* largest file size (bytes) of the streamed file
MaxFileSize == 3
\* chunk size of the streaming loops (64 KiB in the code, scaled down so
\* that a transfer takes several loop iterations)
bufsize == 2

\* ------------------------------------------------------------------------
\* Text helpers
\* ------------------------------------------------------------------------
\* Python's None, as a value comparable with texts
None == <<"None">>

Digits == {"0", "1", "2", "3", "4", "5", "6", "7", "8", "9"}

DigitChar(d) == CASE d = 0 -> "0" [] d = 1 -> "1" [] d = 2 -> "2" [] d = 3 -> "3"
                  [] d = 4 -> "4" [] d = 5 -> "5" [] d = 6 -> "6" [] d = 7 -> "7"
                  [] d = 8 -> "8" [] d = 9 -> "9"

DigitVal(c) == CHOOSE d \in 0..9 : DigitChar(d) = c

\* str(n) for an integer n
RECURSIVE StrNat(_)
StrNat(n) == IF n < 10 THEN <<DigitChar(n)>> ELSE StrNat(n \div 10) \o <<DigitChar(n % 10)>>

ToStr(n) == IF n < 0 THEN <<"-">> \o StrNat(0 - n) ELSE StrNat(n)

\* str.isdigit(): non-empty and every character a digit
IsDigitStr(s) == Len(s) > 0 /\ \A i \in 1..Len(s) : s[i] \in Digits

\* int(s) for a string of digits
RECURSIVE ToInt(_)
ToInt(s) == IF Len(s) = 0 THEN 0
            ELSE 10 * ToInt(SubSeq(s, 1, Len(s) - 1)) + DigitVal(s[Len(s)])

\* s.startswith(p)
StartsWith(s, p) == Len(p) <= Len(s) /\ SubSeq(s, 1, Len(p)) = p

\* s[i:] with a 1-based first index
Drop(s, i) == SubSeq(s, i, Len(s))

\* p in s (substring test)
Contains(s, p) == \E i \in 1..(Len(s) - Len(p) + 1) : SubSeq(s, i, i + Len(p) - 1) = p

\* s.split(c, 1)[0]: the part before the first occurrence of the character c
BeforeFirst(s, c) ==
    IF \E i \in 1..Len(s) : s[i] = c
    THEN SubSeq(s, 1, (CHOOSE i \in 1..Len(s) : s[i] = c /\ \A j \in 1..(i - 1) : s[j] # c) - 1)
    ELSE s

\* number of leading digits of s (the greedy match of \d* at the start of s)
RECURSIVE LeadingDigits(_)
LeadingDigits(s) == IF Len(s) > 0 /\ s[1] \in Digits THEN 1 + LeadingDigits(Tail(s)) ELSE 0

\* s.split('/')
RECURSIVE SplitSlash(_)
SplitSlash(s) ==
    IF \E i \in 1..Len(s) : s[i] = "/"
    THEN LET i == CHOOSE k \in 1..Len(s) : s[k] = "/" /\ \A j \in 1..(k - 1) : s[j] # "/"
         IN <<SubSeq(s, 1, i - 1)>> \o SplitSlash(Drop(s, i + 1))
    ELSE <<s>>

\* '/'.join(comps)
RECURSIVE JoinSlash(_)
JoinSlash(comps) ==
    IF Len(comps) = 0 THEN <<>>
    ELSE IF Len(comps) = 1 THEN comps[1]
    ELSE comps[1] \o <<"/">> \o JoinSlash(Tail(comps))

\* the value of a %XX escape, "" when XX is not a pair of hex digits the
\* model's inputs use
HexPair(a, b) ==
    CASE a = "2" /\ b \in {"e", "E"} -> "."
      [] a = "2" /\ b \in {"f", "F"} -> "/"
      [] a = "2" /\ b = "5" -> "%"
      [] a = "3" /\ b \in {"f", "F"} -> "?"
      [] OTHER -> ""

\* urllib.parse.unquote: every %XX escape is decoded once, left to right;
\* a % that starts no valid escape is kept as it is
RECURSIVE unquote(_)
unquote(s) ==
    IF Len(s) = 0 THEN <<>>
    ELSE IF s[1] = "%" /\ Len(s) >= 3 /\ HexPair(s[2], s[3]) # ""
         THEN <<HexPair(s[2], s[3])>> \o unquote(Drop(s, 4))
         ELSE <<s[1]>> \o unquote(Tail(s))

\* ------------------------------------------------------------------------
\* posixpath
\* ------------------------------------------------------------------------
Cwd == <<"/", "w">>

isabs(p) == StartsWith(p, <<"/">>)

\* os.path.join(a, b)
join(a, b) ==
    IF isabs(b) THEN b
    ELSE IF Len(a) = 0 \/ a[Len(a)] = "/" THEN a \o b
    ELSE a \o <<"/">> \o b

\* the loop of posixpath.normpath over the components
RECURSIVE NormComps(_, _, _)
NormComps(comps, acc, initial) ==
    IF Len(comps) = 0 THEN acc
    ELSE LET c == comps[1]
             dotdot == <<".", ".">>
         IN IF c = <<>> \/ c = <<".">> THEN NormComps(Tail(comps), acc, initial)
            ELSE IF c # dotdot \/ (initial = 0 /\ Len(acc) = 0)
                      \/ (Len(acc) > 0 /\ acc[Len(acc)] = dotdot)
                 THEN NormComps(Tail(comps), Append(acc, c), initial)
            ELSE IF Len(acc) > 0
                 THEN NormComps(Tail(comps), SubSeq(acc, 1, Len(acc) - 1), initial)
            ELSE NormComps(Tail(comps), acc, initial)

\* os.path.normpath
normpath(p) ==
    IF Len(p) = 0 THEN <<".">>
    ELSE LET initial == IF ~isabs(p) THEN 0
                        ELSE IF StartsWith(p, <<"/", "/">>) /\ ~StartsWith(p, <<"/", "/", "/">>)
                             THEN 2 ELSE 1
             body == JoinSlash(NormComps(SplitSlash(p), <<>>, initial))
             res == (IF initial = 2 THEN <<"/", "/">> ELSE IF initial = 1 THEN <<"/">> ELSE <<>>)
                    \o body
         IN IF Len(res) = 0 THEN <<".">> ELSE res

\* os.path.abspath
abspath(p) == normpath(IF isabs(p) THEN p ELSE join(Cwd, p))

\* ------------------------------------------------------------------------
\* State
\* ------------------------------------------------------------------------
VARIABLES
    shared_dirs,   \* the global list of share roots (line 70)
    dirs,          \* filesystem: the set of existing directories
    files,         \* filesystem: existing regular files, path -> content
    req,           \* the HTTP request being answered
    resp,          \* the response the handler produced for req
    stream,        \* one GET exchange on a regular file, step by step
    schedFile,     \* content of the schedule sentinel, None when absent
    cancelFile,    \* TRUE when the cancel sentinel exists
    shutdown_status, \* the global status text (line 63)
    mon,           \* the background task shutdown_monitor
    platform,      \* the last platform operation the monitor invoked
    ctl,           \* the control-plane API exchange being answered
    accepted,      \* the last schedule or cancel request answered 200
    text_message,  \* text of the message file the UI writes, None when absent
    mobile_text_message, \* text of the message file /api/send_text writes
    mail,          \* the mailbox operation being performed
    mhist,         \* history of the mailbox: what was sent and delivered
    command,       \* the request line and body handed to do_GET or do_POST
    shutdown_lock, \* holder of the mutex of shutdown_status (line 65), "free" when released
    workers,       \* request-handling threads whose handler runs statement by statement
    monitors,      \* number of shutdown_monitor threads started so far
    share_btn      \* TRUE while the start-sharing button is enabled

ctlVars == <<schedFile, cancelFile, shutdown_status, mon, platform, ctl, accepted>>

mailVars == <<text_message, mobile_text_message, mail, mhist>>

concVars == <<shutdown_lock, workers, monitors, share_btn>>

vars == <<shared_dirs, dirs, files, req, resp, stream, ctlVars, mailVars, command, concVars>>

\* no exception
NoErr == [cls |-> "none", errno |-> 0]

\* raised by urllib.parse.unquote on an argument that is no text
TypeError == [cls |-> "TypeError", errno |-> 0]

\* FileShareHandler.log_message(format, *args) decodes args[0] with
\* urllib.parse.unquote, which raises TypeError unless args[0] is a text
log_message_raises(arg0IsText) == ~arg0IsText

\* the status line that reaches the client, 0 when none does.
\* send_error(code) first calls log_error("code %d, message %s", code, ...),
\* which hands the integer code to log_message as args[0]
send_error(code) == IF log_message_raises(FALSE) THEN 0 ELSE code

\* send_response(code) logs through log_request, whose args[0] is the
\* request line, a text
send_response(code) == IF log_message_raises(TRUE) THEN 0 ELSE code

\* the exception that leaves a handler whose status line was not sent
ExcOf(status) == IF status = 0 THEN TypeError ELSE NoErr

\* no streaming exchange in progress
IdleStream ==
    [pc |-> "idle", data |-> <<>>, range |-> <<"None">>, rq |-> [kind |-> "none", a |-> 0, b |-> 0],
     f |-> "none", pos |-> 0, status |-> 0, content_range |-> <<>>, content_length |-> <<>>,
     body |-> <<>>, mode |-> "none", length |-> 0, copied |-> FALSE, werr |-> NoErr,
     exc |-> NoErr]

\* the background task before its first cycle
IdleMon == [pc |-> "list", sawCancel |-> FALSE, sawSched |-> FALSE, content |-> <<>>]

NoPlatformOp == [op |-> "none", seconds |-> 0, ok |-> FALSE]

\* a JSON value of the request body: its type and, for a number, its value
Json(t, v) == [t |-> t, v |-> v]

NoCtl == [call |-> "none", arg |-> Json("missing", 0), status |-> 0, body |-> <<>>]

NoAccepted == [kind |-> "none", seconds |-> 0]

\* the request-handling threads that are followed statement by statement
WorkerIds == {"w1", "w2"}

\* a worker thread without a request
IdleWorker == [pc |-> "idle", call |-> "none", seconds |-> [t |-> "missing", v |-> 0],
               target |-> <<"None">>, content |-> <<>>, status |-> 0,
               accessed |-> FALSE, held |-> FALSE]

\* no thread holds the lock, no worker has a request, no monitor thread and
\* no server thread has been started
InitConc ==
    /\ shutdown_lock = "free"
    /\ workers = [w \in WorkerIds |-> IdleWorker]
    /\ monitors = 0
    /\ share_btn = TRUE

\* the control plane after import: no sentinel, empty status text
InitCtl ==
    /\ schedFile = <<"None">>
    /\ cancelFile = FALSE
    /\ shutdown_status = <<>>
    /\ mon = IdleMon
    /\ platform = NoPlatformOp
    /\ ctl = NoCtl
    /\ accepted = NoAccepted

\* no mailbox operation in progress
NoMail == [call |-> "none", status |-> 0, has_message |-> FALSE, text |-> <<>>]

\* nothing sent or delivered yet in either direction
NoHist ==
    [last |-> [d \in {"ToMobile", "ToServer"} |-> None],
     sends |-> [d \in {"ToMobile", "ToServer"} |-> 0],
     delivered |-> [d \in {"ToMobile", "ToServer"} |-> 0],
     prev |-> [d \in {"ToMobile", "ToServer"} |-> None],
     batch |-> [d \in {"ToMobile", "ToServer"} |-> 0],
     confirmed |-> FALSE,
     pending |-> FALSE]

\* no request is being dispatched
NoCommand ==
    [method |-> "none", path |-> <<>>, seconds |-> Json("missing", 0), text |-> <<>>,
     referer |-> <<>>, name |-> <<>>, content |-> <<>>]

\* the mailbox when the program starts: no message file
InitMail ==
    /\ text_message = None
    /\ mobile_text_message = None
    /\ mail = NoMail
    /\ mhist = NoHist

\* ------------------------------------------------------------------------
\* The filesystem the requests run against
\* ------------------------------------------------------------------------
pD == <<"/", "d">>
pM == <<"/", "d", "/", "m">>
pM2 == <<"/", "d", "/", "m", "2">>
pN == <<"/", "d", "/", "n">>
pMa == pM \o <<"/", "a">>
pMaShare2 == pMa \o <<"/", "s", "h", "a", "r", "e", "2">>
nIndexHtml == <<"i", "n", "d", "e", "x", ".", "h", "t", "m", "l">>
nIndexHtm == <<"i", "n", "d", "e", "x", ".", "h", "t", "m">>

InitDirs == {<<"/">>, pD, pM, pM2, pN, pMa, pMaShare2}

InitFiles ==
    (pM \o <<"/", "f">> :> <<1, 2>>) @@ (pM2 \o <<"/", "f">> :> <<7>>)
    @@ (pN \o <<"/">> \o nIndexHtm :> <<5>>)

\* the share lists the configuration collaborator may install
ShareSets == {<<>>, <<pM>>, <<pM, pN>>, <<pN, pM2, pM>>}

isdir(p) == abspath(p) \in dirs
isfile(p) == abspath(p) \in DOMAIN files
exists(p) == isdir(p) \/ isfile(p)

\* ------------------------------------------------------------------------
\* Namespace Resolver: FileShareHandler.translate_path
\* ------------------------------------------------------------------------
RootMark == <<"/", "_", "_", "r", "o", "o", "t", "_", "_">>
sShare == <<"/", "s", "h", "a", "r", "e">>

\* re.match(r'^/share(\d+)/(.*)$', path): does it match
ShareMatches(path) ==
    /\ StartsWith(path, sShare)
    /\ LET r == Drop(path, Len(sShare) + 1)
           n == LeadingDigits(r)
       IN n >= 1 /\ Len(r) > n /\ r[n + 1] = "/"

\* group(1) and group(2) of that match
ShareGroup1(path) ==
    LET r == Drop(path, Len(sShare) + 1) IN SubSeq(r, 1, LeadingDigits(r))
ShareGroup2(path) ==
    LET r == Drop(path, Len(sShare) + 1) IN Drop(r, LeadingDigits(r) + 2)

\* the decoded path translate_path works on
DecodedPath(path) == unquote(BeforeFirst(BeforeFirst(path, "?"), "#"))

translate_path(path) ==
    LET p == DecodedPath(path)
    IN IF p = <<"/">> \/ p = <<>> THEN RootMark
       ELSE IF ShareMatches(p)
            THEN LET share_index == ToInt(ShareGroup1(p)) - 1
                 IN IF 0 <= share_index /\ share_index < Len(shared_dirs)
                    THEN LET share_dir == shared_dirs[share_index + 1]
                             full_path == abspath(join(share_dir, ShareGroup2(p)))
                         IN IF StartsWith(full_path, abspath(share_dir)) THEN full_path ELSE None
                    ELSE None
            ELSE None

\* ------------------------------------------------------------------------
\* GET on a non-API path: FileShareHandler.send_head and the inherited do_GET
\* ------------------------------------------------------------------------
\* urllib.parse.urlsplit(self.path).path
urlpath(path) == BeforeFirst(BeforeFirst(path, "#"), "?")

EndsWithSlash(s) == Len(s) > 0 /\ s[Len(s)] = "/"

NoFile == [status |-> 0, kind |-> "none", f |-> None, resolved |-> None, fsops |-> {}]

\* send_head leaving through send_error(code)
HeadError(code, resolved, fsops) ==
    [NoFile EXCEPT !.status = send_error(code), !.kind = "error", !.resolved = resolved,
                   !.fsops = fsops]

\* a request: method, path, Referer header and the fields of its body
Request(method, path, referer, name, content) ==
    [method |-> method, path |-> path, referer |-> referer, name |-> name,
     content |-> content]

\* send_head for a request without a Range header
send_head(path) ==
    LET p == translate_path(path)
    IN IF p = RootMark
       THEN [NoFile EXCEPT !.status = send_response(200), !.kind = "root", !.resolved = p]
       ELSE IF p = None THEN HeadError(403, None, {})
       ELSE IF isdir(p) /\ ~EndsWithSlash(urlpath(path))
            THEN [NoFile EXCEPT !.status = send_response(301), !.kind = "redirect", !.resolved = p,
                                !.fsops = {"isdir"}]
       ELSE IF isdir(p) /\ ~exists(join(p, nIndexHtml)) /\ ~exists(join(p, nIndexHtm))
            THEN [NoFile EXCEPT !.status = send_response(200), !.kind = "listing", !.resolved = p,
                                !.fsops = {"isdir", "exists", "listdir"}]
       ELSE LET target == IF ~isdir(p) THEN p
                          ELSE IF exists(join(p, nIndexHtml)) THEN join(p, nIndexHtml)
                          ELSE join(p, nIndexHtm)
            IN IF ~exists(target) \/ ~isfile(target)
               THEN HeadError(404, p, {"isdir", "exists"})
               ELSE [NoFile EXCEPT !.status = send_response(200), !.kind = "file", !.resolved = p,
                                   !.f = abspath(target),
                                   !.fsops = {"isdir", "exists", "open", "fstat"}]

\* SimpleHTTPRequestHandler.do_GET: send_head, then copyfile when it returned
\* a file object; sent is the file content written to the client
do_GET(path) ==
    LET h == send_head(path)
    IN [status |-> h.status, kind |-> h.kind, f |-> h.f, resolved |-> h.resolved,
        fsops |-> h.fsops, sent |-> IF h.f # None THEN files[h.f] ELSE <<>>,
        created |-> None, exc |-> ExcOf(h.status)]

\* ------------------------------------------------------------------------
\* The request paths the resolver is exercised on
\* ------------------------------------------------------------------------
Segs == {<<"a">>, <<"f">>, <<"z">>, <<".", ".">>, <<"%", "2", "e", "%", "2", "E">>,
         <<".", "%", "2", "e">>, <<"m", "2">>, <<".">>}

SegSeqs == UNION {[1..n -> Segs] : n \in 0..MaxSegs}

SharePrefix(i) == sShare \o ToStr(i) \o <<"/">>

SharePaths ==
    {SharePrefix(i) \o JoinSlash(ss) \o t \o q :
        i \in 0..4, ss \in SegSeqs, t \in {<<>>, <<"/">>}, q \in {<<>>, <<"?", "q">>}}

OtherPaths ==
    {<<"/">>, <<"/", "?", "q">>, <<"/", "x">>, sShare \o <<"1">>, sShare \o <<"/", "a">>,
     sShare \o <<"0", "1", "/", "f">>, <<"/", "x">> \o SharePrefix(1)}

GetPaths == SharePaths \cup OtherPaths

NoReq == Request("none", <<>>, <<>>, <<>>, <<>>)
NoResp == [status |-> 0, kind |-> "none", f |-> None, resolved |-> None, fsops |-> {},
           sent |-> <<>>, created |-> None, exc |-> NoErr]

\* ------------------------------------------------------------------------
\* Specification of the resolver and the GET path
\* ------------------------------------------------------------------------
InitResolve ==
    /\ shared_dirs = <<>>
    /\ dirs = InitDirs
    /\ files = InitFiles
    /\ req = NoReq
    /\ resp = NoResp
    /\ stream = IdleStream
    /\ InitCtl
    /\ InitMail
    /\ command = NoCommand
    /\ InitConc

\* FolderShareWindow.start_sharing / ServerThread.run: the list is replaced
\* by the configured directories that exist; sharing (re)starts only while
\* no server is serving
start_sharing(valid_paths) ==
    /\ req = NoReq
    /\ valid_paths # <<>>
    /\ \A i \in 1..Len(valid_paths) : isdir(valid_paths[i])
    /\ shared_dirs' = valid_paths
    /\ UNCHANGED <<dirs, files, req, resp, stream, ctlVars, mailVars, command, concVars>>

\* one GET exchange on a non-API path, from the request to the response
Get(path) ==
    /\ req = NoReq
    /\ req' = Request("GET", path, <<>>, <<>>, <<>>)
    /\ resp' = do_GET(path)
    /\ UNCHANGED <<shared_dirs, dirs, files, stream, ctlVars, mailVars, command, concVars>>

\* the exchange is over: the worker is ready for the next request
finish ==
    /\ req # NoReq
    /\ req' = NoReq
    /\ resp' = NoResp
    /\ UNCHANGED <<shared_dirs, dirs, files, stream, ctlVars, mailVars, command, concVars>>

NextResolve ==
    \/ \E ss \in ShareSets : start_sharing(ss)
    \/ \E path \in GetPaths : Get(path)
    \/ finish

SpecResolve == InitResolve /\ [][NextResolve]_vars

\* ------------------------------------------------------------------------
\* Claims about the Namespace Resolver and the GET path
\* ------------------------------------------------------------------------
\* the request is a GET whose decoded path has the form /share<N>/<rest>
IsShareGet == req.method = "GET" /\ ShareMatches(DecodedPath(req.path))

\* the N of that request
ReqShareNumber == ToInt(ShareGroup1(DecodedPath(req.path)))

\* p is root itself or lies below it at a path-segment boundary
IsWithin(p, root) == p = root \/ StartsWith(p, root \o <<"/">>)

\* C1: whenever translate_path returns a filesystem path for /share<N>/<rest>,
\* that path is ShareSet[N-1] itself or a descendant of it at path-segment
\* boundaries (a sibling whose name only starts with the root's name is never
\* returned, and an escaping '..', raw or percent-encoded, is rejected).
C1_SandboxInvariant ==
    (IsShareGet /\ resp.resolved # None)
        => /\ ReqShareNumber \in 1..Len(shared_dirs)
           /\ IsWithin(resp.resolved, abspath(shared_dirs[ReqShareNumber]))

\* C2: for every share index outside [1, len(ShareSet)], resolving
\* /share<i>/<anything> yields None, and the GET is answered 403 without any
\* filesystem call and without sending content.
C2_IndexOutOfRangeRejected ==
    (IsShareGet /\ ReqShareNumber \notin 1..Len(shared_dirs))
        => /\ translate_path(req.path) = None
           /\ resp.status = 403
           /\ resp.fsops = {}
           /\ resp.f = None
           /\ resp.sent = <<>>

\* C4: a GET on a non-API path that the resolver rejects is answered 403; one
\* that resolves to a filesystem target that does not exist is answered 404;
\* neither sends file content.
C4_RejectedIs403MissingIs404 ==
    req.method = "GET" =>
        LET p == translate_path(req.path)
        IN /\ p = None => (resp.status = 403 /\ resp.f = None /\ resp.sent = <<>>)
           /\ (p # None /\ p # RootMark /\ ~exists(p))
                 => (resp.status = 404 /\ resp.f = None /\ resp.sent = <<>>)

\* ------------------------------------------------------------------------
\* Mutating API calls: FileShareHandler.do_POST, /api/create_file,
\* /api/create_dir and /api/upload
\* ------------------------------------------------------------------------
EndsWith(s, p) == Len(p) <= Len(s) /\ SubSeq(s, Len(s) - Len(p) + 1, Len(s)) = p

\* str.strip()
RECURSIVE Strip(_)
Strip(s) ==
    IF Len(s) > 0 /\ s[1] = " " THEN Strip(Tail(s))
    ELSE IF Len(s) > 0 /\ s[Len(s)] = " " THEN Strip(SubSeq(s, 1, Len(s) - 1))
    ELSE s

sTxt == <<".", "t", "x", "t">>

\* '..' in name or '/' in name or '\\' in name
UnsafeName(name) ==
    \/ Contains(name, <<".", ".">>)
    \/ Contains(name, <<"/">>)
    \/ Contains(name, <<"\\">>)

\* re.match(r'.*(/share\d+/.*)$', referer): the greedy .* makes group(1)
\* start at the last place of the Referer where /share<digits>/ begins
RefererMatches(referer) == \E i \in 1..Len(referer) : ShareMatches(Drop(referer, i))

RefererGroup1(referer) ==
    LET i == CHOOSE k \in 1..Len(referer) :
                 /\ ShareMatches(Drop(referer, k))
                 /\ \A j \in (k + 1)..Len(referer) : ~ShareMatches(Drop(referer, j))
    IN Drop(referer, i)

\* the path the new object gets, None when the call is answered
\* 400 "Invalid current directory" / "No shared directories available"
TargetPath(referer, name) ==
    IF RefererMatches(referer)
    THEN LET path == translate_path(RefererGroup1(referer))
         IN IF path # None /\ isdir(path) THEN join(path, name) ELSE None
    ELSE IF shared_dirs # <<>> THEN join(shared_dirs[1], name) ELSE None

\* os.path.dirname of a normalized path
dirname(p) ==
    LET comps == SplitSlash(p)
        head == JoinSlash(SubSeq(comps, 1, Len(comps) - 1))
    IN IF head = <<>> THEN <<"/">> ELSE head

\* status of a create call once the name passed its checks: 400 without a
\* target, 409 when the target exists, 500 when the write raises, else 201
CreateStatus(target) ==
    IF target = None THEN 400
    ELSE IF exists(target) THEN 409
    ELSE IF ~isdir(dirname(abspath(target))) THEN 500
    ELSE 201

\* the status line an API handler gets to the client: send_response for
\* 201; send_error otherwise, and when that raises inside the handler's try,
\* the except clause calls send_error(500, str(e))
ApiStatusSent(status) ==
    IF status = 201 THEN send_response(201)
    ELSE IF send_error(status) # 0 THEN send_error(status)
    ELSE send_error(500)

ApiResp(status, target) ==
    [NoResp EXCEPT !.status = ApiStatusSent(status), !.kind = "api",
                   !.created = IF status = 201 THEN abspath(target) ELSE None,
                   !.exc = ExcOf(ApiStatusSent(status))]

CreatedCount ==
    Cardinality(dirs \ InitDirs) + Cardinality(DOMAIN files \ DOMAIN InitFiles)

pApiCreateFile == <<"/", "a", "p", "i", "/", "c", "r", "e", "a", "t", "e", "_", "f", "i", "l", "e">>
pApiCreateDir == <<"/", "a", "p", "i", "/", "c", "r", "e", "a", "t", "e", "_", "d", "i", "r">>
pApiUpload == <<"/", "a", "p", "i", "/", "u", "p", "l", "o", "a", "d">>

\* POST /api/create_file {filename, content}
create_file(referer, name, content) ==
    LET filename == Strip(name)
        filepath == TargetPath(referer, filename)
        status == IF ~EndsWith(filename, sTxt) THEN 400
                  ELSE IF UnsafeName(filename) THEN 400
                  ELSE CreateStatus(filepath)
    IN /\ req = NoReq
       /\ status = 201 => CreatedCount < MaxCreated
       /\ req' = Request("POST", pApiCreateFile, referer, name, content)
       /\ resp' = ApiResp(status, filepath)
       /\ files' = IF status = 201 THEN (abspath(filepath) :> content) @@ files ELSE files
       /\ UNCHANGED <<shared_dirs, dirs, stream, ctlVars, mailVars, command, concVars>>

\* POST /api/create_dir {dirname}
create_dir(referer, name) ==
    LET dname == Strip(name)
        dirpath == TargetPath(referer, dname)
        status == IF dname = <<>> THEN 400
                  ELSE IF UnsafeName(dname) THEN 400
                  ELSE IF dirpath = None THEN 400
                  ELSE IF exists(dirpath) THEN 409
                  ELSE 201
    IN /\ req = NoReq
       /\ status = 201 => CreatedCount < MaxCreated
       /\ req' = Request("POST", pApiCreateDir, referer, name, <<>>)
       /\ resp' = ApiResp(status, dirpath)
       /\ dirs' = IF status = 201 THEN dirs \cup {abspath(dirpath)} ELSE dirs
       /\ UNCHANGED <<shared_dirs, files, stream, ctlVars, mailVars, command, concVars>>

\* POST /api/upload, a multipart form with the fields file and filename
upload(referer, name, content) ==
    LET filename == Strip(name)
        filepath == TargetPath(referer, filename)
        status == IF filename = <<>> THEN 400
                  ELSE IF UnsafeName(filename) THEN 400
                  ELSE CreateStatus(filepath)
    IN /\ req = NoReq
       /\ status = 201 => CreatedCount < MaxCreated
       /\ req' = Request("POST", pApiUpload, referer, name, content)
       /\ resp' = ApiResp(status, filepath)
       /\ files' = IF status = 201 THEN (abspath(filepath) :> content) @@ files ELSE files
       /\ UNCHANGED <<shared_dirs, dirs, stream, ctlVars, mailVars, command, concVars>>

\* The Referer headers: none, or http://h followed by a page path
sHost == <<"h", "t", "t", "p", ":", "/", "/", "h">>

RefererPaths ==
    {<<"/">>, SharePrefix(1), SharePrefix(2), SharePrefix(3),
     SharePrefix(1) \o <<"a", "/">>,
     SharePrefix(1) \o <<"a">> \o SharePrefix(2),
     SharePrefix(1) \o <<".", ".", "/", "m", "2", "/">>,
     SharePrefix(1) \o <<"f">>,
     SharePrefix(1) \o <<"z", "/">>}

Referers == {<<>>} \cup {sHost \o p : p \in RefererPaths}

Names == {<<"x", ".", "t", "x", "t">>, <<"y">>, <<"f">>, <<>>,
          <<".", ".", "/", "x", ".", "t", "x", "t">>}

Contents == {<<3>>, <<4>>}

NextApi ==
    \/ \E ss \in ShareSets : start_sharing(ss)
    \/ \E r \in Referers, n \in Names, c \in Contents : create_file(r, n, c)
    \/ \E r \in Referers, n \in Names : create_dir(r, n)
    \/ \E r \in Referers, n \in Names, c \in Contents : upload(r, n, c)
    \/ finish

SpecApi == InitResolve /\ [][NextApi]_vars

\* ------------------------------------------------------------------------
\* Claims about the mutating API calls
\* ------------------------------------------------------------------------
IsCreateCall == req.path \in {pApiCreateFile, pApiCreateDir, pApiUpload}

\* the path component of the Referer URL
RefererPath == urlpath(Drop(req.referer, Len(sHost) + 1))

\* the Referer's path has the form /share<N>/... with N a configured share
RefererInShare ==
    /\ StartsWith(req.referer, sHost)
    /\ ShareMatches(DecodedPath(RefererPath))
    /\ ToInt(ShareGroup1(DecodedPath(RefererPath))) \in 1..Len(shared_dirs)

RefererShareRoot == abspath(shared_dirs[ToInt(ShareGroup1(DecodedPath(RefererPath)))])

\* C3: when the Referer path names a directory D under /share<N>/..., what
\* create_file, create_dir or upload creates is a direct child of D, and
\* nothing is created outside ShareSet[N-1], the share the Referer's path
\* originates from.
C3_CreateStaysInOriginatingShare ==
    (IsCreateCall /\ resp.created # None /\ RefererInShare)
        => /\ IsWithin(resp.created, RefererShareRoot)
           /\ LET D == translate_path(RefererPath)
              IN (D # None /\ isdir(D)) => resp.created = join(D, Strip(req.name))

\* ------------------------------------------------------------------------
\* Streaming Transfer Engine: send_head on a regular file, range_request,
\* copyfile and copyfile_range
\* ------------------------------------------------------------------------
sBytesEq == <<"b", "y", "t", "e", "s", "=">>

\* re.match(r'bytes=(\d+)-(\d*)', range_header): anchored at the start only
RangeMatches(h) ==
    /\ StartsWith(h, sBytesEq)
    /\ LET r == Drop(h, Len(sBytesEq) + 1)
           n == LeadingDigits(r)
       IN n >= 1 /\ Len(r) > n /\ r[n + 1] = "-"

RangeGroup1(h) ==
    LET r == Drop(h, Len(sBytesEq) + 1) IN SubSeq(r, 1, LeadingDigits(r))

RangeGroup2(h) ==
    LET r == Drop(h, Len(sBytesEq) + 1)
        t == Drop(r, LeadingDigits(r) + 2)
    IN SubSeq(t, 1, LeadingDigits(t))

\* file_size - 1, the end of a range given without one
default_end(file_size) == file_size - 1

\* the range test of range_request
range_invalid(start, end, file_size) ==
    start >= file_size \/ end >= file_size \/ start > end

\* the length with the last byte left out
copy_length_OffByOne(start, end) == end - start

\* length = end - start + 1
copy_length(start, end) == end - start + 1

\* f"bytes {start}-{end}/{file_size}"
ContentRange(start, end, file_size) ==
    <<"b", "y", "t", "e", "s", " ">> \o ToStr(start) \o <<"-">> \o ToStr(end) \o <<"/">>
        \o ToStr(file_size)

\* range_request(f, fs, ctype): the response head and what it does to f; an
\* exception raised by send_error leaves through send_head, whose except
\* clause closes f
range_request(h, file_size) ==
    IF h = <<>>
    THEN [status |-> 0, content_range |-> <<>>, content_length |-> <<>>, f |-> "open", pos |-> 0,
          exc |-> NoErr]
    ELSE IF ~RangeMatches(h)
    THEN [status |-> send_error(416), content_range |-> <<>>, content_length |-> <<>>,
          f |-> "closed", pos |-> 0, exc |-> ExcOf(send_error(416))]
    ELSE LET start == ToInt(RangeGroup1(h))
             end == IF RangeGroup2(h) # <<>> THEN ToInt(RangeGroup2(h))
                    ELSE default_end(file_size)
         IN IF range_invalid(start, end, file_size)
            THEN [status |-> send_error(416), content_range |-> <<>>, content_length |-> <<>>,
                  f |-> "closed", pos |-> 0, exc |-> ExcOf(send_error(416))]
            ELSE [status |-> send_response(206),
                  content_range |-> ContentRange(start, end, file_size),
                  content_length |-> ToStr(end - start + 1), f |-> "open", pos |-> start,
                  exc |-> NoErr]

\* the exceptions a write to the peer or a read of the file may raise
WriteErrors ==
    {[cls |-> "ConnectionResetError", errno |-> 104],
     [cls |-> "ConnectionResetError", errno |-> 10054],
     [cls |-> "BrokenPipeError", errno |-> 32],
     [cls |-> "ConnectionAbortedError", errno |-> 103],
     [cls |-> "ConnectionAbortedError", errno |-> 10053],
     [cls |-> "TimeoutError", errno |-> 110]}

ReadError == [cls |-> "OSError", errno |-> 5]

ValueError == [cls |-> "ValueError", errno |-> 0]

\* the except clauses of copyfile and copyfile_range: is e swallowed
absorbed(e) ==
    \/ e.cls \in {"ConnectionResetError", "BrokenPipeError"}
    \/ (e.cls # "ValueError" /\ e.errno \in {10054, 32})

\* send_head, lines 1104-1127: the file is opened and the head is sent, or
\* an exception leaves send_head and do_GET
StreamGet(data, range, rq) ==
    /\ stream.pc = "idle"
    /\ stream' =
         IF range # None
         THEN LET r == range_request(range, Len(data))
              IN [IdleStream EXCEPT !.pc = IF r.exc = NoErr THEN "head" ELSE "raised",
                                    !.data = data, !.range = range, !.rq = rq,
                                    !.f = r.f, !.pos = r.pos, !.status = r.status,
                                    !.content_range = r.content_range,
                                    !.content_length = r.content_length, !.exc = r.exc]
         ELSE [IdleStream EXCEPT !.pc = "head", !.data = data, !.range = range, !.rq = rq,
                                 !.f = "open", !.status = send_response(200),
                                 !.content_length = ToStr(Len(data))]
    /\ UNCHANGED <<shared_dirs, dirs, files, req, resp, ctlVars, mailVars, command, concVars>>

\* do_GET calls copyfile(f, self.wfile) with the file object send_head
\* returned; copyfile picks the range loop or the full copy
CopyStart ==
    /\ stream.pc = "head"
    /\ stream' =
         IF stream.range # None /\ RangeMatches(stream.range)
         THEN IF RangeGroup2(stream.range) = <<>> /\ stream.f = "closed"
              THEN \* os.fstat(source.fileno()) on a closed file
                   [stream EXCEPT !.pc = "raised", !.copied = TRUE, !.exc = ValueError]
              ELSE LET start == ToInt(RangeGroup1(stream.range))
                       end == IF RangeGroup2(stream.range) # <<>>
                              THEN ToInt(RangeGroup2(stream.range))
                              ELSE Len(stream.data) - 1
                   IN [stream EXCEPT !.pc = "copy", !.copied = TRUE, !.mode = "range",
                                     !.length = copy_length(start, end)]
         ELSE [stream EXCEPT !.pc = "copy", !.copied = TRUE, !.mode = "full"]
    /\ UNCHANGED <<shared_dirs, dirs, files, req, resp, ctlVars, mailVars, command, concVars>>

\* what one exception does to the exchange: swallowed by the except clauses
\* (the transfer ends) or propagated out of copyfile
Raise(err, wasWrite) ==
    [stream EXCEPT !.pc = IF absorbed(err) THEN "done" ELSE "raised",
                   !.werr = IF wasWrite THEN err ELSE @,
                   !.exc = IF absorbed(err) THEN NoErr ELSE err,
                   !.f = "closed"]

\* the bytes source.read(n) returns at the current position
ReadBuf(n) ==
    SubSeq(stream.data, stream.pos + 1,
           IF stream.pos + n < Len(stream.data) THEN stream.pos + n ELSE Len(stream.data))

\* one iteration of the loop of copyfile_range
CopyRangeStep(outcome) ==
    /\ stream.pc = "copy"
    /\ stream.mode = "range"
    /\ stream' =
         IF stream.length <= 0 THEN [stream EXCEPT !.pc = "done", !.f = "closed"]
         ELSE IF stream.f = "closed" THEN Raise(ValueError, FALSE)
         ELSE IF outcome = ReadError THEN Raise(ReadError, FALSE)
         ELSE LET to_read == IF bufsize < stream.length THEN bufsize ELSE stream.length
                  buf == ReadBuf(to_read)
              IN IF buf = <<>> THEN [stream EXCEPT !.pc = "done", !.f = "closed"]
                 ELSE IF outcome \in WriteErrors THEN Raise(outcome, TRUE)
                 ELSE [stream EXCEPT !.body = @ \o buf, !.pos = @ + Len(buf),
                                     !.length = @ - Len(buf)]
    /\ UNCHANGED <<shared_dirs, dirs, files, req, resp, ctlVars, mailVars, command, concVars>>

\* one iteration of the loop of shutil.copyfileobj, inside the try of copyfile
CopyFullStep(outcome) ==
    /\ stream.pc = "copy"
    /\ stream.mode = "full"
    /\ stream' =
         IF stream.f = "closed" THEN Raise(ValueError, FALSE)
         ELSE IF outcome = ReadError THEN Raise(ReadError, FALSE)
         ELSE LET buf == ReadBuf(bufsize)
              IN IF buf = <<>> THEN [stream EXCEPT !.pc = "done", !.f = "closed"]
                 ELSE IF outcome \in WriteErrors THEN Raise(outcome, TRUE)
                 ELSE [stream EXCEPT !.body = @ \o buf, !.pos = @ + Len(buf)]
    /\ UNCHANGED <<shared_dirs, dirs, files, req, resp, ctlVars, mailVars, command, concVars>>

\* the worker is done with the exchange
StreamEnd ==
    /\ stream.pc \in {"done", "raised"}
    /\ stream' = IdleStream
    /\ UNCHANGED <<shared_dirs, dirs, files, req, resp, ctlVars, mailVars, command, concVars>>

\* a file of n bytes, all different
FileOfSize(n) == [i \in 1..n |-> i]

\* Range: bytes=<a>-<b>, without <b> when b = -1
RangeHeader(a, b) ==
    sBytesEq \o ToStr(a) \o <<"-">> \o (IF b = -1 THEN <<>> ELSE ToStr(b))

\* the requests: no Range header, a single range, a list of ranges, and
\* headers of another form (suffix range, other unit, empty value)
StreamRequests ==
    {<<None, [kind |-> "none", a |-> 0, b |-> 0]>>}
    \cup {<<RangeHeader(a, b), [kind |-> "single", a |-> a, b |-> b]>> :
            a \in 0..(MaxFileSize + 1), b \in -1..(MaxFileSize + 1)}
    \cup {<<RangeHeader(a, b) \o <<",">> \o Drop(RangeHeader(2, 2), Len(sBytesEq) + 1),
            [kind |-> "multi", a |-> a, b |-> b]>> :
            a \in 0..1, b \in 0..MaxFileSize}
    \cup {<<h, [kind |-> "other", a |-> 0, b |-> 0]>> :
            h \in {<<>>, sBytesEq \o <<"-", "1">>, <<"i", "t", "e", "m", "s", "=", "0", "-", "1">>}}

Outcomes == {NoErr, ReadError} \cup WriteErrors

InitStream ==
    /\ shared_dirs = <<pM>>
    /\ dirs = InitDirs
    /\ files = InitFiles
    /\ req = NoReq
    /\ resp = NoResp
    /\ stream = IdleStream
    /\ InitCtl
    /\ InitMail
    /\ command = NoCommand
    /\ InitConc

NextStream ==
    \/ \E n \in 0..MaxFileSize, r \in StreamRequests : StreamGet(FileOfSize(n), r[1], r[2])
    \/ CopyStart
    \/ \E o \in Outcomes : CopyRangeStep(o)
    \/ \E o \in Outcomes : CopyFullStep(o)
    \/ StreamEnd

SpecStream == InitStream /\ [][NextStream]_vars

\* ------------------------------------------------------------------------
\* Claims about the Streaming Transfer Engine
\* ------------------------------------------------------------------------
FileSize == Len(stream.data)

\* first and last byte of the requested single range, the last defaulting
\* to the end of the file
ReqStart == stream.rq.a
ReqEnd == IF stream.rq.b = -1 THEN FileSize - 1 ELSE stream.rq.b

\* the request carries one range with 0 <= start <= end < file size
ValidSingleRange ==
    /\ stream.pc # "idle"
    /\ stream.rq.kind = "single"
    /\ 0 <= ReqStart /\ ReqStart <= ReqEnd /\ ReqEnd < FileSize

\* the transfer ran to its end and no write to the peer failed
CompletedUndisturbed == stream.pc = "done" /\ stream.werr = NoErr

IsPrefix(s, t) == Len(s) <= Len(t) /\ SubSeq(t, 1, Len(s)) = s

\* C5: for a file of size S and Range: bytes=<start>-<end> with
\* 0 <= start <= end < S (end defaulting to S-1), the response is 206 with
\* Content-Range 'bytes start-end/S' and Content-Length end-start+1, and,
\* absent a peer disconnect, exactly the file bytes start..end are streamed,
\* in order.
C5_ValidRangeServedExactly ==
    ValidSingleRange =>
        LET wanted == SubSeq(stream.data, ReqStart + 1, ReqEnd + 1)
        IN /\ stream.status = 206
           /\ stream.content_range =
                <<"b", "y", "t", "e", "s", " ">> \o ToStr(ReqStart) \o <<"-">>
                    \o ToStr(ReqEnd) \o <<"/">> \o ToStr(FileSize)
           /\ stream.content_length = ToStr(ReqEnd - ReqStart + 1)
           /\ IsPrefix(stream.body, wanted)
           /\ CompletedUndisturbed => stream.body = wanted

\* a range spanning more than one chunk was streamed completely
C5_Witness ==
    /\ ValidSingleRange
    /\ CompletedUndisturbed
    /\ ReqStart = 0
    /\ stream.rq.b = FileSize - 1
    /\ Len(stream.body) > bufsize

IsZeroDash == stream.pc # "idle" /\ stream.rq.kind = "single" /\ stream.rq.a = 0 /\ stream.rq.b = -1

IsSizeDash ==
    stream.pc # "idle" /\ stream.rq.kind = "single" /\ stream.rq.a = FileSize /\ stream.rq.b = -1

WholeFile206 ==
    /\ stream.status = 206
    /\ EndsWith(stream.content_range, <<"-">> \o ToStr(FileSize - 1) \o <<"/">> \o ToStr(FileSize))
    /\ CompletedUndisturbed => stream.body = stream.data

\* C6: for every file size S, S = 0 included, Range: bytes=0-
\* returns the whole file with status 206 and a Content-Range ending at S-1,
\* and Range: bytes=S- returns 416.
C6_RoundTrip ==
    /\ IsZeroDash => WholeFile206
    /\ IsSizeDash => stream.status = 416

\* C7: a Range request whose values violate 0 <= start <= end < fileSize is
\* answered 416 and the transfer is aborted: no file bytes are written and no
\* further streaming step is attempted for that exchange.
C7_InvalidRangeAborts ==
    (stream.pc # "idle" /\ stream.rq.kind = "single" /\ ~ValidSingleRange)
        => /\ stream.status = 416
           /\ stream.body = <<>>
           /\ ~stream.copied
           /\ stream.exc = NoErr

\* C8: a multi-range header is treated as unsupported: the response is the
\* full-file 200 or a 416, never a 206 for one of the listed ranges.
C8_MultiRangeUnsupported ==
    (stream.pc # "idle" /\ stream.rq.kind = "multi") => stream.status \in {200, 416}

\* the peer closed the connection: reset, aborted or broken pipe
PeerDisconnected(e) ==
    e.cls \in {"ConnectionResetError", "ConnectionAbortedError", "BrokenPipeError"}

\* C9: in both streaming paths a write that fails because the peer closed the
\* connection (reset, aborted, broken pipe, any platform error code) ends the
\* transfer silently, no exception leaving copyfile/copyfile_range; any other
\* I/O failure is re-raised.
C9_DisconnectAbsorbedOthersRaised ==
    /\ (stream.werr # NoErr /\ PeerDisconnected(stream.werr))
          => (stream.pc = "done" /\ stream.exc = NoErr)
    /\ (stream.werr # NoErr /\ ~PeerDisconnected(stream.werr))
          => (stream.pc = "raised" /\ stream.exc = stream.werr)

\* ------------------------------------------------------------------------
\* Control Channel: the shutdown API and the sentinel-file monitor
\* ------------------------------------------------------------------------
\* the fixed parts of the "scheduled" status text, each kept as one token
sScheduledHead == <<"[will shut down in ">>

sScheduledTail == <<" s]">>

sCancelled == <<"[shutdown cancelled]">>

\* isinstance(seconds, int): bool is a subclass of int
isinstance_int(seconds) == seconds.t \in {"int", "bool"}

\* str(seconds) for a value that passed isinstance(seconds, int)
str(seconds) == IF seconds.t = "bool"
                THEN (IF seconds.v = 1 THEN <<"T", "r", "u", "e">>
                      ELSE <<"F", "a", "l", "s", "e">>)
                ELSE ToStr(seconds.v)

\* f"...{seconds}..." assigned to shutdown_status by /api/shutdown
ScheduledStatus(seconds) == sScheduledHead \o str(seconds) \o sScheduledTail

\* a test that accepts every string of digits, zero included
is_positive_integer_DigitsOnly(s) == IsDigitStr(s)

\* s.isdigit() and int(s) > 0
is_positive_integer(s) == IsDigitStr(s) /\ ToInt(s) > 0

\* values of the "seconds" member of the request body
SecondsValues ==
    {Json("int", n) : n \in {0 - 1, 0, 5, 30}}
        \cup {Json("bool", 1), Json("bool", 0), Json("str", 5), Json("float", 5),
              Json("missing", 0)}

\* the status line a handler that decided on an error code gets out: the
\* send_error inside the try raises, and so does the one of the except clause
CtlErrorSent(code) == IF send_error(code) # 0 THEN send_error(code) ELSE send_error(500)

\* POST /api/shutdown
api_shutdown(seconds) ==
    /\ ctl = NoCtl
    /\ IF ~isinstance_int(seconds) \/ seconds.v <= 0
       THEN /\ ctl' = [NoCtl EXCEPT !.call = "shutdown", !.arg = seconds,
                                    !.status = CtlErrorSent(400)]
            /\ UNCHANGED <<schedFile, shutdown_status, accepted>>
       ELSE /\ schedFile' = str(seconds)
            /\ shutdown_status' = ScheduledStatus(seconds)
            /\ ctl' = [NoCtl EXCEPT !.call = "shutdown", !.arg = seconds,
                                    !.status = send_response(200)]
            /\ accepted' = [kind |-> "schedule", seconds |-> seconds]
    /\ UNCHANGED <<command, concVars, mailVars, shared_dirs, dirs, files, req, resp, stream, cancelFile, mon, platform>>

\* a cancel handler that calls the platform cancel operation itself
api_cancel_shutdown_Inline ==
    /\ ctl = NoCtl
    /\ cancelFile' = TRUE
    /\ shutdown_status' = sCancelled
    /\ platform' = [op |-> "cancel", seconds |-> 0, ok |-> TRUE]
    /\ ctl' = [NoCtl EXCEPT !.call = "cancel_shutdown", !.status = send_response(200)]
    /\ accepted' = [kind |-> "cancel", seconds |-> Json("missing", 0)]
    /\ UNCHANGED <<command, concVars, mailVars, shared_dirs, dirs, files, req, resp, stream, schedFile, mon>>

\* POST /api/cancel_shutdown
api_cancel_shutdown ==
    /\ ctl = NoCtl
    /\ cancelFile' = TRUE
    /\ shutdown_status' = sCancelled
    /\ ctl' = [NoCtl EXCEPT !.call = "cancel_shutdown", !.status = send_response(200)]
    /\ accepted' = [kind |-> "cancel", seconds |-> Json("missing", 0)]
    /\ UNCHANGED <<command, concVars, mailVars, shared_dirs, dirs, files, req, resp, stream, schedFile, mon, platform>>

\* a status query that consumes the status text it returns
api_shutdown_status_Consuming ==
    /\ ctl = NoCtl
    /\ ctl' = [NoCtl EXCEPT !.call = "shutdown_status", !.status = send_response(200),
                            !.body = shutdown_status]
    /\ shutdown_status' = <<>>
    /\ UNCHANGED <<command, concVars, mailVars, shared_dirs, dirs, files, req, resp, stream, schedFile, cancelFile,
                   mon, platform, accepted>>

\* GET or POST /api/shutdown_status
api_shutdown_status ==
    /\ ctl = NoCtl
    /\ ctl' = [NoCtl EXCEPT !.call = "shutdown_status", !.status = send_response(200),
                            !.body = shutdown_status]
    /\ UNCHANGED <<command, concVars, mailVars, shared_dirs, dirs, files, req, resp, stream, schedFile, cancelFile,
                   shutdown_status, mon, platform, accepted>>

\* the exchange is over
ctl_finish ==
    /\ ctl # NoCtl
    /\ ctl' = NoCtl
    /\ UNCHANGED <<command, concVars, mailVars, shared_dirs, dirs, files, req, resp, stream, schedFile, cancelFile,
                   shutdown_status, mon, platform, accepted>>

\* shutdown_monitor: files = os.listdir('.')
MonList ==
    /\ mon.pc = "list"
    /\ mon' = [IdleMon EXCEPT !.pc = "cancel", !.sawCancel = cancelFile,
                              !.sawSched = (schedFile # None)]
    /\ UNCHANGED <<command, concVars, mailVars, shared_dirs, dirs, files, req, resp, stream, schedFile, cancelFile,
                   shutdown_status, platform, ctl, accepted>>

\* shutdown_monitor: the cancel sentinel was listed: cancel_shutdown(), which
\* leaves shutdown_status alone, then os.remove of the sentinel
MonCancel ==
    /\ mon.pc = "cancel"
    /\ IF mon.sawCancel
       THEN /\ platform' = [op |-> "cancel", seconds |-> 0, ok |-> TRUE]
            /\ cancelFile' = FALSE
       ELSE UNCHANGED <<platform, cancelFile>>
    /\ mon' = [mon EXCEPT !.pc = "read"]
    /\ UNCHANGED <<command, concVars, mailVars, shared_dirs, dirs, files, req, resp, stream, schedFile,
                   shutdown_status, ctl, accepted>>

\* shutdown_monitor: the schedule sentinel was listed: read it, strip it and
\* test is_positive_integer
MonRead ==
    /\ mon.pc = "read"
    /\ IF mon.sawSched /\ schedFile # None /\ is_positive_integer(Strip(schedFile))
       THEN mon' = [mon EXCEPT !.pc = "invoke", !.content = Strip(schedFile)]
       ELSE mon' = [mon EXCEPT !.pc = "sleep"]
    /\ UNCHANGED <<command, concVars, mailVars, shared_dirs, dirs, files, req, resp, stream, schedFile, cancelFile,
                   shutdown_status, platform, ctl, accepted>>

\* shutdown_monitor: schedule_shutdown(int(content)); ok is what it returns
MonInvoke(ok) ==
    /\ mon.pc = "invoke"
    /\ platform' = [op |-> "schedule", seconds |-> ToInt(mon.content), ok |-> ok]
    /\ mon' = [mon EXCEPT !.pc = IF ok THEN "remove" ELSE "sleep"]
    /\ UNCHANGED <<command, concVars, mailVars, shared_dirs, dirs, files, req, resp, stream, schedFile, cancelFile,
                   shutdown_status, ctl, accepted>>

\* a monitor that also clears the status text once the command is handed over
MonRemove_ClearsStatus ==
    /\ mon.pc = "remove"
    /\ schedFile' = None
    /\ shutdown_status' = <<>>
    /\ mon' = [mon EXCEPT !.pc = "sleep"]
    /\ UNCHANGED <<command, concVars, mailVars, shared_dirs, dirs, files, req, resp, stream, cancelFile,
                   platform, ctl, accepted>>

\* shutdown_monitor: os.remove of the schedule sentinel after a successful
\* schedule_shutdown
MonRemove ==
    /\ mon.pc = "remove"
    /\ schedFile' = None
    /\ mon' = [mon EXCEPT !.pc = "sleep"]
    /\ UNCHANGED <<command, concVars, mailVars, shared_dirs, dirs, files, req, resp, stream, cancelFile,
                   shutdown_status, platform, ctl, accepted>>

\* shutdown_monitor: time.sleep(5), then the next scan
MonSleep ==
    /\ mon.pc = "sleep"
    /\ mon' = [mon EXCEPT !.pc = "list"]
    /\ UNCHANGED <<command, concVars, mailVars, shared_dirs, dirs, files, req, resp, stream, schedFile, cancelFile,
                   shutdown_status, platform, ctl, accepted>>

InitControl ==
    /\ shared_dirs = <<pM>>
    /\ dirs = InitDirs
    /\ files = InitFiles
    /\ req = NoReq
    /\ resp = NoResp
    /\ stream = IdleStream
    /\ InitCtl
    /\ InitMail
    /\ command = NoCommand
    /\ InitConc

NextControl ==
    \/ \E seconds \in SecondsValues : api_shutdown(seconds)
    \/ api_cancel_shutdown
    \/ api_shutdown_status
    \/ ctl_finish
    \/ MonList
    \/ MonCancel
    \/ MonRead
    \/ \E ok \in BOOLEAN : MonInvoke(ok)
    \/ MonRemove
    \/ MonSleep

SpecControl == InitControl /\ [][NextControl]_vars

\* ------------------------------------------------------------------------
\* Claims about the Control Channel
\* ------------------------------------------------------------------------
\* this step answers POST /api/shutdown, seconds a positive integer, with 200
ScheduleAnswered200 ==
    /\ ctl = NoCtl
    /\ ctl'.call = "shutdown"
    /\ ctl'.arg.t = "int"
    /\ ctl'.arg.v > 0
    /\ ctl'.status = 200

\* this step answers /api/shutdown_status while the last accepted schedule or
\* cancel request is a schedule request for a positive integer
StatusAfterSchedule ==
    /\ ctl = NoCtl
    /\ ctl'.call = "shutdown_status"
    /\ accepted.kind = "schedule"
    /\ accepted.seconds.t = "int"

\* this step ends the monitor's processing of a sentinel whose platform
\* invocation succeeded
ProcessedSuccessfully ==
    /\ mon.pc = "remove"
    /\ mon'.pc = "sleep"
    /\ platform.op = "schedule"
    /\ platform.ok

InvalidSecondsStep ==
    /\ ctl = NoCtl
    /\ ctl'.call = "shutdown"
    /\ ~(ctl'.arg.t = "int" /\ ctl'.arg.v > 0)

\* text that is the decimal numeral of a positive integer
IsDecimalPositive(s) == IsDigitStr(s) /\ ToInt(s) > 0 /\ ToStr(ToInt(s)) = s

\* C11: POST /api/shutdown with a "seconds" value that is not a positive
\* integer (zero, negative, string, float, boolean, missing) is answered 400
\* and leaves the schedule sentinel and shutdown_status unchanged; so every
\* sentinel the handler writes holds the decimal numeral of a positive integer.
C11_InvalidSecondsRejected ==
    [][ /\ InvalidSecondsStep =>
              (ctl'.status = 400 /\ schedFile' = schedFile
                 /\ shutdown_status' = shutdown_status)
        /\ (ctl = NoCtl /\ ctl'.call = "shutdown" /\ schedFile' # schedFile)
              => IsDecimalPositive(schedFile') ]_vars

\* one step of the monitor thread
MonStep ==
    \/ MonList
    \/ MonCancel
    \/ MonRead
    \/ \E ok \in BOOLEAN : MonInvoke(ok)
    \/ MonRemove
    \/ MonSleep

\* the monitor is a daemon thread that loops for ever: none of its steps
\* blocks, so it always takes its next step eventually
SpecControlFair == SpecControl /\ WF_vars(MonStep)

\* C12: after /api/cancel_shutdown is accepted (cancel sentinel written,
\* status text "cancelled") the monitor, scheduled fairly, invokes the
\* platform cancel operation, deletes the sentinel and resets the state to
\* Idle: unless a later schedule request supersedes it, a cancel request
\* always leads to the empty status text with the sentinel gone.
C12_CancelLeadsToIdle ==
    (accepted.kind = "cancel")
        ~> (\/ accepted.kind # "cancel"
            \/ (shutdown_status = <<>> /\ ~cancelFile /\ platform.op = "cancel"))

\* the status text fixed by the last accepted schedule or cancel request
StatusFor(a) ==
    IF a.kind = "schedule" THEN ScheduledStatus(a.seconds)
    ELSE IF a.kind = "cancel" THEN sCancelled
    ELSE <<>>

\* C13: every /api/shutdown_status answer is the text fixed by the last
\* accepted schedule or cancel request, so consecutive status requests with no
\* schedule or cancel request in between all return the same string whatever
\* monitor cycles ran meanwhile; and the query changes neither shutdown_status
\* nor a sentinel.
C13_StatusQueryIdempotent ==
    [][ (ctl = NoCtl /\ ctl'.call = "shutdown_status")
          => /\ ctl'.status = 200
             /\ ctl'.body = StatusFor(accepted)
             /\ UNCHANGED <<shutdown_status, schedFile, cancelFile>> ]_vars

\* a cancel request was accepted, the monitor then ran a cycle that handled
\* it, and a status query made afterwards returns the cancelled text
C13_Witness ==
    /\ ctl.call = "shutdown_status"
    /\ ctl.status = 200
    /\ ctl.body = sCancelled
    /\ accepted.kind = "cancel"
    /\ platform.op = "cancel"
    /\ ~cancelFile
    /\ mon.pc = "sleep"

\* C14: both sentinels are transient: under fair scheduling of the monitor a
\* schedule sentinel that exists is eventually removed, and so is a cancel
\* sentinel; none persists for ever.
C14_SentinelsTransient ==
    /\ (schedFile # None) ~> (schedFile = None)
    /\ cancelFile ~> ~cancelFile

\* ------------------------------------------------------------------------
\* Mailbox: two message files, one per direction
\* ------------------------------------------------------------------------
\* min(n + 1, 2): the history counts "none, one, several"
Bump(n) == IF n >= 1 THEN 2 ELSE n + 1

\* the message file of direction d
Slot(d) == IF d = "ToMobile" THEN text_message ELSE mobile_text_message

\* the history after a send to direction d stored the payload t: the payload
\* it found in the slot, the number of sends since the last poll
Sent(d, t) ==
    [mhist EXCEPT !.last[d] = t, !.prev[d] = Slot(d), !.sends[d] = Bump(@),
                  !.delivered[d] = 0,
                  !.confirmed = IF d = "ToMobile" THEN FALSE ELSE @]

\* the history after a poll of direction d that did or did not return a
\* message: how many sends it followed, how often the message was returned,
\* and whether a browser holds a message it has not confirmed yet
Polled(d, got) ==
    [mhist EXCEPT !.batch[d] = mhist.sends[d], !.sends[d] = 0,
                  !.delivered[d] = IF got THEN Bump(@) ELSE @,
                  !.pending = IF d = "ToMobile" /\ got THEN TRUE ELSE @]

\* a mailbox operation leaves everything outside the mailbox alone
MailFrame == UNCHANGED <<shared_dirs, dirs, files, req, resp, stream, ctlVars, command, concVars>>

\* POST /api/send_text: the browser sends a text to the computer
send_text(text) ==
    /\ mail = NoMail
    /\ IF Strip(text) = <<>>
       THEN /\ mail' = [NoMail EXCEPT !.call = "send_text", !.status = CtlErrorSent(400)]
            /\ UNCHANGED <<mobile_text_message, mhist>>
       ELSE /\ mobile_text_message' = Strip(text)
            /\ mail' = [NoMail EXCEPT !.call = "send_text", !.status = send_response(200)]
            /\ mhist' = Sent("ToServer", Strip(text))
    /\ UNCHANGED text_message
    /\ MailFrame

\* GET or POST /api/check_message: the browser polls for a text of the computer
check_message ==
    /\ mail = NoMail
    /\ mail' = [NoMail EXCEPT !.call = "check_message", !.status = send_response(200),
                              !.has_message = (text_message # None),
                              !.text = IF text_message # None THEN text_message ELSE <<>>]
    /\ mhist' = Polled("ToMobile", text_message # None)
    /\ UNCHANGED <<text_message, mobile_text_message>>
    /\ MailFrame

\* a confirmation that removes the browser's message file instead
confirm_message_ClearsToServer ==
    /\ mail = NoMail
    /\ mobile_text_message' = None
    /\ mail' = [NoMail EXCEPT !.call = "confirm_message", !.status = send_response(200)]
    /\ mhist' = [mhist EXCEPT !.confirmed = TRUE, !.pending = FALSE]
    /\ UNCHANGED text_message
    /\ MailFrame

\* POST /api/confirm_message: the browser confirms, the message file is removed
confirm_message ==
    /\ mail = NoMail
    /\ text_message' = None
    /\ mail' = [NoMail EXCEPT !.call = "confirm_message", !.status = send_response(200)]
    /\ mhist' = [mhist EXCEPT !.confirmed = TRUE, !.pending = FALSE]
    /\ UNCHANGED mobile_text_message
    /\ MailFrame

\* a UI send that keeps a message not yet fetched instead of replacing it
save_text_message_KeepFirst(text) ==
    /\ mail = NoMail
    /\ Strip(text) # <<>>
    /\ text_message' = IF text_message # None THEN text_message ELSE text
    /\ mail' = [NoMail EXCEPT !.call = "save_text_message"]
    /\ mhist' = Sent("ToMobile", text)
    /\ UNCHANGED mobile_text_message
    /\ MailFrame

\* show_send_text_dialog -> save_text_message: the computer sends a text
save_text_message(text) ==
    /\ mail = NoMail
    /\ Strip(text) # <<>>
    /\ text_message' = text
    /\ mail' = [NoMail EXCEPT !.call = "save_text_message"]
    /\ mhist' = Sent("ToMobile", text)
    /\ UNCHANGED mobile_text_message
    /\ MailFrame

\* check_messages, run by the UI timer: show the browser's text, remove the file
check_messages ==
    /\ mail = NoMail
    /\ mail' = [NoMail EXCEPT !.call = "check_messages",
                              !.has_message = (mobile_text_message # None),
                              !.text = IF mobile_text_message # None
                                       THEN mobile_text_message ELSE <<>>]
    /\ mobile_text_message' = None
    /\ mhist' = Polled("ToServer", mobile_text_message # None)
    /\ UNCHANGED text_message
    /\ MailFrame

\* the operation is over
mail_finish ==
    /\ mail # NoMail
    /\ mail' = NoMail
    /\ UNCHANGED <<text_message, mobile_text_message, mhist>>
    /\ MailFrame

\* texts typed into either send dialog
Texts == {<<"a">>, <<"b">>, <<" ", "b">>, <<" ">>, <<>>}

InitMailbox ==
    /\ shared_dirs = <<pM>>
    /\ dirs = InitDirs
    /\ files = InitFiles
    /\ req = NoReq
    /\ resp = NoResp
    /\ stream = IdleStream
    /\ InitCtl
    /\ InitMail
    /\ command = NoCommand
    /\ InitConc

NextMailbox ==
    \/ \E text \in Texts : send_text(text)
    \/ check_message
    \/ confirm_message
    \/ \E text \in Texts : save_text_message(text)
    \/ check_messages
    \/ mail_finish

SpecMailbox == InitMailbox /\ [][NextMailbox]_vars

\* ------------------------------------------------------------------------
\* Claims about the Mailbox
\* ------------------------------------------------------------------------
\* this step is a poll of direction d by its receiving end
PollStep(d) ==
    /\ mail = NoMail
    /\ mail'.call = IF d = "ToMobile" THEN "check_message" ELSE "check_messages"

C16_ConsumedExactlyOnce ==
    /\ \A d \in {"ToMobile", "ToServer"} : mhist.delivered[d] <= 1
    /\ (mail.call = "check_message" /\ mail.has_message) => text_message = None
    /\ (mail.call = "check_messages" /\ mail.has_message) => mobile_text_message = None

\* C17: the two slots are independent: /api/confirm_message empties the
\* ToMobile slot and leaves the ToServer slot unchanged; /api/send_text leaves
\* the ToMobile slot unchanged; /api/check_message changes neither slot; and
\* after confirm_message a check_message with no UI send in between returns
\* has_message = false.
C17_SlotsIndependent ==
    [][ /\ (mail = NoMail /\ mail'.call = "confirm_message")
              => (text_message' = None /\ mobile_text_message' = mobile_text_message)
        /\ (mail = NoMail /\ mail'.call = "send_text")
              => text_message' = text_message
        /\ (mail = NoMail /\ mail'.call = "check_message")
              => /\ UNCHANGED <<text_message, mobile_text_message>>
                 /\ mhist.confirmed => ~mail'.has_message ]_vars

\* a message of the computer was returned by a poll and confirmed while a
\* message of the browser was waiting; the next poll finds nothing and the
\* browser's message is still there
C17_Witness ==
    /\ mail.call = "check_message"
    /\ ~mail.has_message
    /\ mhist.confirmed
    /\ mhist.delivered["ToMobile"] = 1
    /\ mobile_text_message = <<"b">>

\* ------------------------------------------------------------------------
\* Claims about existing targets and unsafe names
\* ------------------------------------------------------------------------
\* this step answers a create_file, create_dir or upload call
CreateStep == req = NoReq /\ req'.path \in {pApiCreateFile, pApiCreateDir, pApiUpload}

\* the name the call carries passes the handler's rules: '.txt' for
\* create_file, non-empty for all, no '/', '\' or '..'
ValidName ==
    /\ Strip(req'.name) # <<>>
    /\ ~UnsafeName(Strip(req'.name))
    /\ req'.path = pApiCreateFile => EndsWith(Strip(req'.name), sTxt)

\* the path the call is about, in the state before the step
CallTarget == TargetPath(req'.referer, Strip(req'.name))

\* the target exists after the step, holding the content the call supplied
TargetCreated ==
    IF req'.path = pApiCreateDir
    THEN abspath(CallTarget) \in dirs'
    ELSE /\ abspath(CallTarget) \in DOMAIN files'
         /\ files'[abspath(CallTarget)] = req'.content

\* C18: for create_file, create_dir and upload with a valid name: when the
\* target does not exist the call is answered 201 and the target then exists
\* with the supplied content; when it exists (the same call repeated) the
\* call is answered 409 and the filesystem is unchanged; a target that
\* exists is never answered 201.
C18_CreateOnceThen409 ==
    [][ (CreateStep /\ ValidName /\ CallTarget # None)
          => /\ ~exists(CallTarget) => (resp'.status = 201 /\ TargetCreated)
             /\ exists(CallTarget)
                   => (resp'.status = 409 /\ files' = files /\ dirs' = dirs) ]_vars

\* C19: create_file with a filename not ending in '.txt', and create_file,
\* create_dir or upload with a name that is empty or contains '/', '\' or
\* '..', are answered 400 and leave the filesystem unchanged, whatever the
\* Referer and the shares.
C19_UnsafeNameRejected ==
    [][ (CreateStep /\ ~ValidName)
          => (resp'.status = 400 /\ files' = files /\ dirs' = dirs) ]_vars

\* ------------------------------------------------------------------------
\* Request Dispatcher: do_GET and do_POST
\* ------------------------------------------------------------------------
sApi == <<"/", "a", "p", "i", "/">>

pApiShutdown == <<"/", "a", "p", "i", "/", "s", "h", "u", "t", "d", "o", "w", "n">>
pApiCancelShutdown == <<"/", "a", "p", "i", "/", "c", "a", "n", "c", "e", "l", "_", "s", "h", "u", "t", "d", "o", "w", "n">>
pApiShutdownStatus == <<"/", "a", "p", "i", "/", "s", "h", "u", "t", "d", "o", "w", "n", "_", "s", "t", "a", "t", "u", "s">>
pApiSendText == <<"/", "a", "p", "i", "/", "s", "e", "n", "d", "_", "t", "e", "x", "t">>
pApiCheckMessage == <<"/", "a", "p", "i", "/", "c", "h", "e", "c", "k", "_", "m", "e", "s", "s", "a", "g", "e">>
pApiConfirmMessage == <<"/", "a", "p", "i", "/", "c", "o", "n", "f", "i", "r", "m", "_", "m", "e", "s", "s", "a", "g", "e">>

\* the paths do_POST compares self.path with
ApiEndpoints ==
    {pApiSendText, pApiCheckMessage, pApiConfirmMessage, pApiShutdown, pApiCancelShutdown,
     pApiCreateFile, pApiCreateDir, pApiUpload, pApiShutdownStatus}

\* do_POST on any other path: 403 when translate_path gives the root marker
\* or None, else the final else branch, 404
post_other(path) ==
    /\ req = NoReq
    /\ req' = Request("POST", path, <<>>, <<>>, <<>>)
    /\ LET status == IF translate_path(path) \in {RootMark, None}
                     THEN send_error(403) ELSE send_error(404)
       IN resp' = [NoResp EXCEPT !.status = status, !.kind = "api", !.exc = ExcOf(status)]
    /\ UNCHANGED <<shared_dirs, dirs, files, stream, ctlVars, mailVars, command, concVars>>

\* FileShareHandler.do_POST: the branch is chosen by self.path alone
do_POST(c) ==
    \/ c.path = pApiSendText /\ send_text(c.text)
    \/ c.path = pApiCheckMessage /\ check_message
    \/ c.path = pApiConfirmMessage /\ confirm_message
    \/ c.path = pApiShutdown /\ api_shutdown(c.seconds)
    \/ c.path = pApiCancelShutdown /\ api_cancel_shutdown
    \/ c.path = pApiCreateFile /\ create_file(c.referer, c.name, c.content)
    \/ c.path = pApiCreateDir /\ create_dir(c.referer, c.name)
    \/ c.path = pApiUpload /\ upload(c.referer, c.name, c.content)
    \/ c.path = pApiShutdownStatus /\ api_shutdown_status
    \/ c.path \notin ApiEndpoints /\ post_other(c.path)

\* a do_GET that hands only the read-only endpoints to do_POST
GetTarget_ReadOnly(path) ==
    IF path \in {pApiShutdownStatus, pApiCheckMessage} THEN "do_POST" ELSE "super.do_GET"

\* FileShareHandler.do_GET: the method body that answers a GET, do_POST for
\* /api/ paths and the inherited do_GET for the rest
GetTarget(path) == IF StartsWith(path, sApi) THEN "do_POST" ELSE "super.do_GET"

\* the method body that answers the request c
Handler(c) == IF c.method = "GET" THEN GetTarget(c.path) ELSE "do_POST"

\* no handler has answered yet
NotHandled == req = NoReq /\ ctl = NoCtl /\ mail = NoMail

\* a request arrives: its method, path, headers and body
parse_request(c) ==
    /\ command = NoCommand
    /\ InitConc
    /\ NotHandled
    /\ command' = c
    /\ UNCHANGED <<shared_dirs, dirs, files, req, resp, stream, ctlVars, mailVars, concVars>>

\* the method named by the request line is called
handle(c) ==
    /\ command = c
    /\ c # NoCommand
    /\ NotHandled
    /\ \/ Handler(c) = "do_POST" /\ do_POST(c)
       \/ Handler(c) = "super.do_GET" /\ Get(c.path)

\* the response is out and the connection is ready for the next request
request_done ==
    /\ command # NoCommand
    /\ ~NotHandled
    /\ command' = NoCommand
    /\ req' = NoReq
    /\ resp' = NoResp
    /\ ctl' = NoCtl
    /\ mail' = NoMail
    /\ UNCHANGED <<shared_dirs, dirs, files, stream, schedFile, cancelFile, shutdown_status,
                   mon, platform, accepted, text_message, mobile_text_message, mhist, concVars>>

\* a request with the given method and path and an empty body
Cmd(method, path) == [NoCommand EXCEPT !.method = method, !.path = path]

\* the requests sent, each with both methods
Commands ==
    UNION {
      {[Cmd(m, pApiShutdown) EXCEPT !.seconds = s] :
            s \in {Json("int", 5), Json("int", 0)}}
      \cup {Cmd(m, p) : p \in {pApiCancelShutdown, pApiShutdownStatus, pApiCheckMessage,
                               pApiConfirmMessage}}
      \cup {[Cmd(m, pApiSendText) EXCEPT !.text = t] : t \in {<<"b">>, <<" ">>}}
      \cup {[Cmd(m, pApiCreateFile) EXCEPT !.referer = r, !.name = n, !.content = <<3>>] :
            r \in {sHost \o SharePrefix(1)},
            n \in {<<"x", ".", "t", "x", "t">>, <<"y">>}}
      \cup {[Cmd(m, pApiCreateDir) EXCEPT !.name = <<"y">>]}
      \cup {[Cmd(m, pApiUpload) EXCEPT !.name = <<"f">>, !.content = <<4>>]}
      \cup {Cmd(m, p) : p \in {sApi \o <<"z">>, SharePrefix(1) \o <<"f">>}}
      : m \in {"GET", "POST"} }

InitDispatch ==
    /\ shared_dirs = <<pM>>
    /\ dirs = InitDirs
    /\ files = InitFiles
    /\ req = NoReq
    /\ resp = NoResp
    /\ stream = IdleStream
    /\ InitCtl
    /\ InitMail
    /\ command = NoCommand
    /\ InitConc

NextDispatch ==
    \/ \E c \in Commands : parse_request(c)
    \/ \E c \in Commands : handle(c)
    \/ request_done

SpecDispatch == InitDispatch /\ [][NextDispatch]_vars

\* ------------------------------------------------------------------------
\* Claims about the Request Dispatcher
\* ------------------------------------------------------------------------
\* C20: for every path under /api/ a GET request is dispatched exactly as a
\* POST on the same path with the same headers and body: the step that
\* handles the GET is the step do_POST takes for that request, with the same
\* response status and the same effect on the sentinels, the status text, the
\* mailbox slots and the filesystem.
C20_GetOnApiIsPost ==
    [][ (command.method = "GET" /\ StartsWith(command.path, sApi) /\ NotHandled
           /\ command' = command)
          => do_POST(command) ]_vars

\* a GET on /api/shutdown carrying seconds = 5 was answered 200 and wrote the
\* schedule sentinel
C20_Witness ==
    /\ command.method = "GET"
    /\ command.path = pApiShutdown
    /\ ctl.call = "shutdown"
    /\ ctl.status = 200
    /\ schedFile = <<"5">>
    /\ shutdown_status = ScheduledStatus(Json("int", 5))

\* ------------------------------------------------------------------------
\* API calls whose body cannot be parsed
\* ------------------------------------------------------------------------
\* a request body that json.loads (for upload: parse_multipart) rejects
MalformedBody == <<"{", "!">>

\* the endpoints that parse a request body
BodyEndpoints == {pApiSendText, pApiShutdown, pApiCreateFile, pApiCreateDir, pApiUpload}

\* the status the handler decides on when parsing the body raises: every
\* endpoint parses inside try ... except Exception: send_error(500, str(e))
ParseFailureStatus(path) == 500

\* POST on a body-parsing endpoint with a malformed body
malformed_body(path) ==
    /\ req = NoReq
    /\ req' = Request("POST", path, <<>>, <<>>, MalformedBody)
    /\ resp' = [NoResp EXCEPT !.status = ApiStatusSent(ParseFailureStatus(path)),
                              !.kind = "api",
                              !.exc = ExcOf(ApiStatusSent(ParseFailureStatus(path)))]
    /\ UNCHANGED <<shared_dirs, dirs, files, stream, ctlVars, mailVars, command, concVars>>

NextApiFaults ==
    \/ NextApi
    \/ \E path \in BodyEndpoints : malformed_body(path)

SpecApiFaults == InitResolve /\ [][NextApiFaults]_vars

\* this step answers an API call made with POST
ApiCallStep == req = NoReq /\ req' # NoReq /\ resp'.kind = "api"

\* the call's body is malformed, or lacks the name it must carry
IsBadRequest == req'.content = MalformedBody \/ Strip(req'.name) = <<>>

\* C21: an API call whose body is malformed JSON or multipart, or lacks a
\* required field, is answered 400, not 500; whatever fails, the handler
\* returns a response and no exception leaves it; and a call answered with
\* an error mutates nothing.
C21_ErrorTaxonomy ==
    [][ ApiCallStep =>
          /\ IsBadRequest => resp'.status = 400
          /\ resp'.exc = NoErr
          /\ resp'.status # 201 => (files' = files /\ dirs' = dirs) ]_vars

\* the path component of a Referer URL
RefPath(referer) == urlpath(Drop(referer, Len(sHost) + 1))

\* the Referer is present and its path resolves to an existing directory
\* inside the share its /share<N>/ prefix names
RefererValid(referer) ==
    /\ StartsWith(referer, sHost)
    /\ ShareMatches(DecodedPath(RefPath(referer)))
    /\ ToInt(ShareGroup1(DecodedPath(RefPath(referer)))) \in 1..Len(shared_dirs)
    /\ translate_path(RefPath(referer)) # None
    /\ isdir(translate_path(RefPath(referer)))
    /\ IsWithin(translate_path(RefPath(referer)),
                abspath(shared_dirs[ToInt(ShareGroup1(DecodedPath(RefPath(referer))))]))

\* the directory a create call is to work in
ExpectedDir(referer) ==
    IF RefererValid(referer) THEN translate_path(RefPath(referer)) ELSE shared_dirs[1]

\* C22: target directory of create_file, create_dir and upload: when the
\* Referer is present and its path resolves to an existing directory inside a
\* share, the target is that directory; in every other case (no Referer, no
\* /share<N>/ path, a path the resolver rejects or that is no directory) it is
\* the first share root.
C22_TargetDirectory ==
    [][ (CreateStep /\ ValidName /\ shared_dirs # <<>>)
          => CallTarget = join(ExpectedDir(req'.referer), Strip(req'.name)) ]_vars

\* ------------------------------------------------------------------------
\* Listing Renderer: FileShareHandler.list_shared_dirs and list_directory
\* ------------------------------------------------------------------------
MaxEntries == 3

\* html.escape(s) with quote=True, one character at a time
escape_char(c) ==
    CASE c = "&" -> <<"&", "a", "m", "p", ";">>
      [] c = "<" -> <<"&", "l", "t", ";">>
      [] c = ">" -> <<"&", "g", "t", ";">>
      [] c = "\"" -> <<"&", "q", "u", "o", "t", ";">>
      [] c = "'" -> <<"&", "#", "x", "2", "7", ";">>
      [] OTHER -> <<c>>

RECURSIVE escape(_)
escape(s) == IF s = <<>> THEN <<>> ELSE escape_char(s[1]) \o escape(Tail(s))

\* urllib.parse.quote(s, safe='/'), one character at a time
quote_char(c) ==
    CASE c = "&" -> <<"%", "2", "6">>
      [] c = "<" -> <<"%", "3", "C">>
      [] c = ">" -> <<"%", "3", "E">>
      [] c = "?" -> <<"%", "3", "F">>
      [] c = "%" -> <<"%", "2", "5">>
      [] OTHER -> <<c>>

RECURSIVE quote(_)
quote(s) == IF s = <<>> THEN <<>> ELSE quote_char(s[1]) \o quote(Tail(s))

\* the code point of a character of the listed names
ord(c) ==
    CASE c = "&" -> 38
      [] c = "<" -> 60
      [] c = "A" -> 65
      [] c = "B" -> 66
      [] c = "C" -> 67
      [] c = "a" -> 97
      [] c = "b" -> 98
      [] c = "c" -> 99
      [] OTHER -> 0

\* str.lower(), one character at a time
lower_char(c) ==
    CASE c = "A" -> "a"
      [] c = "B" -> "b"
      [] c = "C" -> "c"
      [] OTHER -> c

lower(s) == [i \in 1..Len(s) |-> lower_char(s[i])]

\* s < t for two str values: the first differing code point decides, a
\* proper prefix is smaller
RECURSIVE str_lt(_, _)
str_lt(s, t) ==
    IF t = <<>> THEN FALSE
    ELSE IF s = <<>> THEN TRUE
    ELSE IF s[1] # t[1] THEN ord(s[1]) < ord(t[1])
    ELSE str_lt(Tail(s), Tail(t))

\* the sort key of list_directory: (not isdir(join(path, a)), a.lower())
SortKey_CaseSensitive(path, a) == [notdir |-> ~isdir(join(path, a)), name |-> a]
SortKey(path, a) == [notdir |-> ~isdir(join(path, a)), name |-> lower(a)]

\* k1 < k2 for two such tuples: False < True, then the names
key_lt(k1, k2) ==
    \/ ~k1.notdir /\ k2.notdir
    \/ k1.notdir = k2.notdir /\ str_lt(k1.name, k2.name)

\* list.sort(key=...): stable, an element goes behind every element whose
\* key is not greater than its own
sort_insert(path, sorted, x) ==
    LET n == Cardinality({i \in 1..Len(sorted) :
                             ~key_lt(SortKey(path, x), SortKey(path, sorted[i]))})
    IN SubSeq(sorted, 1, n) \o <<x>> \o SubSeq(sorted, n + 1, Len(sorted))

RECURSIVE sort(_, _)
sort(path, names) ==
    IF names = <<>> THEN <<>>
    ELSE sort_insert(path, sort(path, SubSeq(names, 1, Len(names) - 1)), names[Len(names)])

\* os.path.basename
basename(p) == LET comps == SplitSlash(p) IN IF comps = <<>> THEN <<>> ELSE comps[Len(comps)]

\* the entries os.listdir(path) returns, in every order it may return them
listdir_set(path) ==
    {basename(p) : p \in {q \in dirs \cup DOMAIN files : q # path /\ dirname(q) = path}}

listdir(path) ==
    LET s == listdir_set(path)
    IN {f \in [1..Cardinality(s) -> s] : \A i, j \in 1..Cardinality(s) : i # j => f[i] # f[j]}

\* list_directory: displaypath as computed from self.path
displaypath(current_url) ==
    IF ShareMatches(current_url)
    THEN LET rel_path == unquote(ShareGroup2(current_url))
         IN <<"s", "h", "a", "r", "e">> \o ShareGroup1(current_url) \o <<"/">> \o rel_path
    ELSE unquote(current_url)

\* list_directory: str(share_index), 1 unless the pattern matched self.path
share_index_str(current_url) ==
    IF ShareMatches(current_url) THEN ShareGroup1(current_url) ELSE <<"1">>

\* list_directory: the <li> of one entry; text is what is written between the tags
list_item(path, name) ==
    LET is_dir == isdir(join(path, name))
        display_name == IF is_dir THEN name \o <<"/">> ELSE name
    IN [name |-> name, is_dir |-> is_dir, href |-> quote(display_name),
        text |-> escape(display_name)]

\* list_directory(path) for self.path = current_url when os.listdir returned
\* names: heading is the text written into <h2>, up says whether the '../'
\* link is written
list_directory(path, current_url, names) ==
    LET sorted == sort(path, names)
    IN [view |-> "directory",
        heading |-> displaypath(current_url),
        up |-> displaypath(current_url)
                  # <<"s", "h", "a", "r", "e">> \o share_index_str(current_url) \o <<"/">>,
        items |-> [i \in 1..Len(sorted) |-> list_item(path, sorted[i])]]

\* list_shared_dirs: one <a class="dir-item"> per shared directory
shared_item(i) ==
    LET dir_path == shared_dirs[i]
        dir_name == IF basename(dir_path) # <<>> THEN basename(dir_path) ELSE dir_path
        display_path == IF Len(dir_path) > 50
                        THEN <<".", ".", ".">> \o SubSeq(dir_path, Len(dir_path) - 46, Len(dir_path))
                        ELSE dir_path
    IN [href |-> SharePrefix(i), dir_name |-> dir_name, dir_path |-> display_path]

list_shared_dirs ==
    [view |-> "root", status_text |-> shutdown_status,
     items |-> [i \in 1..Len(shared_dirs) |-> shared_item(i)]]

\* ------------------------------------------------------------------------
\* Specification of the listing pages
\* ------------------------------------------------------------------------
pLt == <<"/", "d", "/", "<", "b">>

EntryNames == {<<"a">>, <<"A", "b">>, <<"B">>, <<"&">>}

\* the contents a shared directory may have: at most MaxEntries names, each
\* a directory (TRUE) or a file
EntryKinds ==
    UNION {[S -> BOOLEAN] : S \in {T \in SUBSET EntryNames : Cardinality(T) <= MaxEntries}}

ListShares == {<<pM>>, <<pM, pLt>>, <<pLt, pM>>}

ListPaths ==
    {<<"/">>} \cup
    {SharePrefix(i) \o t : i \in 1..2,
        t \in {<<>>, <<"?", "q">>, <<"#", "x">>, <<"?", "<">>, <<"a", "/">>,
               <<"a", "/", ".", ".", "/">>}}

InitListing ==
    /\ shared_dirs = <<>>
    /\ \E kinds \in EntryKinds :
          /\ dirs = {<<"/">>, pD, pM, pLt} \cup {join(pM, n) : n \in {m \in DOMAIN kinds : kinds[m]}}
          /\ files = [p \in {join(pM, n) : n \in {m \in DOMAIN kinds : ~kinds[m]}} |-> <<>>]
    /\ req = NoReq
    /\ resp = NoResp
    /\ stream = IdleStream
    /\ InitCtl
    /\ InitMail
    /\ command = NoCommand
    /\ InitConc

\* one GET exchange whose response body is a generated page: send_head
\* returns the page of list_shared_dirs or list_directory and copyfile
\* writes it to the client
GetListing(path) ==
    LET h == send_head(path)
    IN /\ req = NoReq
       /\ h.kind \in {"root", "listing"}
       /\ req' = Request("GET", path, <<>>, <<>>, <<>>)
       /\ \E names \in (IF h.kind = "listing" THEN listdir(h.resolved) ELSE {<<>>}) :
             resp' = [status |-> h.status, kind |-> h.kind, f |-> h.f, resolved |-> h.resolved,
                      fsops |-> h.fsops,
                      sent |-> IF h.kind = "root" THEN <<list_shared_dirs>>
                               ELSE <<list_directory(h.resolved, path, names)>>,
                      created |-> None, exc |-> ExcOf(h.status)]
       /\ UNCHANGED <<shared_dirs, dirs, files, stream, ctlVars, mailVars, command, concVars>>

NextListing ==
    \/ \E valid_paths \in ListShares : start_sharing(valid_paths)
    \/ \E path \in ListPaths : GetListing(path)
    \/ finish

SpecListing == InitListing /\ [][NextListing]_vars

\* ------------------------------------------------------------------------
\* Claims about the listing pages
\* ------------------------------------------------------------------------
\* the response is a generated page
IsPage == resp.kind \in {"root", "listing"} /\ resp.sent # <<>>
Page == resp.sent[1]

\* C23: every string taken from the filesystem or the request is HTML-escaped
\* where it is written into a page: in the root view the name and the path of
\* every shared directory, in the directory view the displayed path of the
\* current directory and the name of every entry
C23_PageTextEscaped ==
    IsPage =>
        /\ Page.view = "root" =>
              \A i \in 1..Len(Page.items) :
                 /\ Page.items[i].dir_name = escape(basename(shared_dirs[i]))
                 /\ Page.items[i].dir_path = escape(shared_dirs[i])
        /\ Page.view = "directory" =>
              /\ Page.heading = escape(displaypath(req.path))
              /\ \A i \in 1..Len(Page.items) :
                    Page.items[i].text
                       = escape(Page.items[i].name \o (IF Page.items[i].is_dir THEN <<"/">> ELSE <<>>))

\* C24: a directory view lists every directory before every file, each of
\* the two groups in ascending order of the names compared without regard to
\* case, and the listed names are exactly the entries of the directory, each
\* once
C24_ListingSorted ==
    (IsPage /\ Page.view = "directory") =>
        LET items == Page.items
        IN /\ Len(items) = Cardinality(listdir_set(resp.resolved))
           /\ {items[i].name : i \in 1..Len(items)} = listdir_set(resp.resolved)
           /\ \A i \in 1..Len(items) : items[i].is_dir = isdir(join(resp.resolved, items[i].name))
           /\ \A i, j \in 1..Len(items) :
                 i < j =>
                    /\ items[j].is_dir => items[i].is_dir
                    /\ items[i].is_dir = items[j].is_dir
                          => ~str_lt(lower(items[j].name), lower(items[i].name))

\* a listing with directories and files in which an upper-case name follows a
\* lower-case one of the same group
C24_Witness ==
    /\ IsPage
    /\ Page.view = "directory"
    /\ \E i, j, k \in 1..Len(Page.items) :
          /\ i < j
          /\ Page.items[i].name = <<"a">>
          /\ Page.items[j].name = <<"B">>
          /\ Page.items[i].is_dir = Page.items[j].is_dir
          /\ Page.items[k].is_dir # Page.items[i].is_dir

\* the listed directory is the root of a shared directory
ListedIsShareRoot == \E i \in 1..Len(shared_dirs) : resp.resolved = abspath(shared_dirs[i])

\* C25: a directory view contains the '../' entry exactly when the listed
\* directory is not the root of a share, whatever form the request URL has
C25_ParentLinkIffNotRoot ==
    (IsPage /\ Page.view = "directory") => (Page.up <=> ~ListedIsShareRoot)

\* ------------------------------------------------------------------------
\* Symbolic links below a shared directory
\* ------------------------------------------------------------------------
pMo == pM \o <<"/", "o">>
pMi == pM \o <<"/", "i">>

\* the symbolic links of the filesystem: /d/m/o points out of /d/m to /d/n,
\* /d/m/i points to /d/m/a inside it
symlinks == (pMo :> pN) @@ (pMi :> pMa)

\* os.path.realpath of a normalized path: a leading symbolic link is replaced
\* by its target
realpath(p) ==
    IF \E l \in DOMAIN symlinks : IsWithin(p, l)
    THEN LET l == CHOOSE k \in DOMAIN symlinks : IsWithin(p, k)
         IN symlinks[l] \o Drop(p, Len(l) + 1)
    ELSE p

\* the paths through which the links make the entries of their targets
\* visible to os.path.isdir, os.path.exists and open, which follow links
LinkedPaths(S) ==
    UNION {{l \o Drop(p, Len(symlinks[l]) + 1) : p \in {q \in S : IsWithin(q, symlinks[l])}} :
              l \in DOMAIN symlinks}

LinkedDirs == InitDirs \cup LinkedPaths(InitDirs)
LinkedFiles == [p \in DOMAIN InitFiles \cup LinkedPaths(DOMAIN InitFiles) |-> InitFiles[realpath(p)]]

LinkRests ==
    {<<>>, <<"f">>, <<"o">>, <<"o", "/">>, <<"o", "/">> \o nIndexHtm, <<"i", "/">>,
     <<"i", "/", "s", "h", "a", "r", "e", "2", "/">>, <<"a", "/">>, <<"z">>}

LinkPaths ==
    {SharePrefix(i) \o r \o q : i \in 1..3, r \in LinkRests, q \in {<<>>, <<"?", "q">>}}

InitLinks ==
    /\ shared_dirs = <<>>
    /\ dirs = LinkedDirs
    /\ files = LinkedFiles
    /\ req = NoReq
    /\ resp = NoResp
    /\ stream = IdleStream
    /\ InitCtl
    /\ InitMail
    /\ command = NoCommand
    /\ InitConc

NextLinks ==
    \/ \E ss \in ShareSets : start_sharing(ss)
    \/ \E path \in LinkPaths : Get(path)
    \/ finish

SpecLinks == InitLinks /\ [][NextLinks]_vars

\* C26: a request whose target leaves the share through a symbolic link is
\* caught: whatever translate_path returns lies, once symbolic links are
\* resolved, inside the symlink-resolved root of the share it was asked from
C26_SymlinkEscapeCaught ==
    (IsShareGet /\ resp.resolved # None)
        => IsWithin(realpath(resp.resolved), realpath(abspath(shared_dirs[ReqShareNumber])))

\* ------------------------------------------------------------------------
\* The sentinel-file monitor with the failures of its cycle
\* ------------------------------------------------------------------------
\* what the schedule sentinel may hold when it is put into the working
\* directory by hand
SentinelContents ==
    {<<>>, <<"0">>, <<"-", "1">>, <<"a">>, <<"5">>, <<" ", "5">>}

\* the schedule sentinel is written into the working directory from outside
\* the server; the monitor finds it by name only
put_sentinel(content) ==
    /\ schedFile' = content
    /\ UNCHANGED <<command, concVars, mailVars, shared_dirs, dirs, files, req, resp, stream, cancelFile,
                   shutdown_status, mon, platform, ctl, accepted>>

\* shutdown_monitor: os.listdir('.') raises; the outer except clause logs it
MonListFails ==
    /\ mon.pc = "list"
    /\ mon' = [IdleMon EXCEPT !.pc = "sleep"]
    /\ UNCHANGED <<command, concVars, mailVars, shared_dirs, dirs, files, req, resp, stream, schedFile, cancelFile,
                   shutdown_status, platform, ctl, accepted>>

\* shutdown_monitor: cancel_shutdown() returned but os.remove of the cancel
\* sentinel raises; the except clause around it logs it
MonCancelRemoveFails ==
    /\ mon.pc = "cancel"
    /\ mon.sawCancel
    /\ platform' = [op |-> "cancel", seconds |-> 0, ok |-> TRUE]
    /\ mon' = [mon EXCEPT !.pc = "read"]
    /\ UNCHANGED <<command, concVars, mailVars, shared_dirs, dirs, files, req, resp, stream, schedFile, cancelFile,
                   shutdown_status, ctl, accepted>>

\* cancel_shutdown: subprocess.run(["shutdown", "/a"]) has no timeout and
\* never returns
MonCancelStalls ==
    /\ mon.pc = "cancel"
    /\ mon.sawCancel
    /\ platform' = [op |-> "cancel", seconds |-> 0, ok |-> FALSE]
    /\ mon' = [mon EXCEPT !.pc = "blocked"]
    /\ UNCHANGED <<command, concVars, mailVars, shared_dirs, dirs, files, req, resp, stream, schedFile, cancelFile,
                   shutdown_status, ctl, accepted>>

\* shutdown_monitor: open or read of the schedule sentinel raises; the except
\* clause around the schedule branch logs it
MonReadFails ==
    /\ mon.pc = "read"
    /\ mon.sawSched
    /\ mon' = [mon EXCEPT !.pc = "sleep"]
    /\ UNCHANGED <<command, concVars, mailVars, shared_dirs, dirs, files, req, resp, stream, schedFile, cancelFile,
                   shutdown_status, platform, ctl, accepted>>

\* schedule_shutdown: subprocess.run(["shutdown", "/s", "/t", ...]) has no
\* timeout and never returns
MonInvokeStalls ==
    /\ mon.pc = "invoke"
    /\ platform' = [op |-> "schedule", seconds |-> ToInt(mon.content), ok |-> FALSE]
    /\ mon' = [mon EXCEPT !.pc = "blocked"]
    /\ UNCHANGED <<command, concVars, mailVars, shared_dirs, dirs, files, req, resp, stream, schedFile, cancelFile,
                   shutdown_status, ctl, accepted>>

\* shutdown_monitor: os.remove of the schedule sentinel raises; the except
\* clause around the schedule branch logs it
MonRemoveFails ==
    /\ mon.pc = "remove"
    /\ mon' = [mon EXCEPT !.pc = "sleep"]
    /\ UNCHANGED <<command, concVars, mailVars, shared_dirs, dirs, files, req, resp, stream, schedFile, cancelFile,
                   shutdown_status, platform, ctl, accepted>>

\* one step of the monitor thread, failures included
MonitorStep ==
    \/ MonList
    \/ MonListFails
    \/ MonCancel
    \/ MonCancelRemoveFails
    \/ MonCancelStalls
    \/ MonRead
    \/ MonReadFails
    \/ \E ok \in BOOLEAN : MonInvoke(ok)
    \/ MonInvokeStalls
    \/ MonRemove
    \/ MonRemoveFails
    \/ MonSleep

NextMonitor ==
    \/ \E content \in SentinelContents : put_sentinel(content)
    \/ \E seconds \in {Json("int", 5), Json("int", 30)} : api_shutdown(seconds)
    \/ api_cancel_shutdown
    \/ ctl_finish
    \/ MonitorStep

SpecMonitor == InitControl /\ [][NextMonitor]_vars

\* the monitor thread runs as long as the process does: whenever one of its
\* steps can be taken it is taken eventually
SpecMonitorFair == SpecMonitor /\ WF_vars(MonitorStep)

\* ------------------------------------------------------------------------
\* Claims about the monitor
\* ------------------------------------------------------------------------
\* this step is the monitor's call of schedule_shutdown
InvokesPlatformShutdown == mon.pc = "invoke" /\ mon'.pc # "invoke"

\* this step is the monitor's reading of the schedule sentinel it listed
ReadsSentinel == mon.pc = "read" /\ mon'.pc # "read" /\ mon.sawSched /\ schedFile # None

\* C27: the monitor never calls the platform shutdown operation for a
\* schedule sentinel whose content, blanks around it aside, is not the decimal
\* numeral of a positive integer (empty, zero, negative, non-numeric): reading
\* such content ends the cycle's work on the sentinel, and every platform
\* shutdown call carries the number read from a sentinel that held one
C27_InvalidContentIgnored ==
    [][ /\ (ReadsSentinel /\ ~IsDecimalPositive(Strip(schedFile)))
              => (mon'.pc = "sleep" /\ platform' = platform /\ schedFile' = schedFile)
        /\ (ReadsSentinel /\ mon'.pc = "invoke")
              => (IsDecimalPositive(Strip(schedFile)) /\ mon'.content = Strip(schedFile))
        /\ InvokesPlatformShutdown
              => (IsDecimalPositive(mon.content) /\ platform'.seconds = ToInt(mon.content)) ]_vars

\* the monitor read a sentinel holding "0" and ended its cycle without any
\* platform call having been made
C27_Witness ==
    /\ mon.pc = "sleep"
    /\ mon.sawSched
    /\ mon.content = <<>>
    /\ schedFile = <<"0">>
    /\ platform = NoPlatformOp

\* this step deletes the schedule sentinel
DeletesSentinel == schedFile # None /\ schedFile' = None

\* C28: the monitor deletes the schedule sentinel only in a cycle in which
\* schedule_shutdown, called for the content of the sentinel being deleted,
\* returned success; a failed call leaves the sentinel in place and ends the
\* cycle, so that the next cycle finds it again
C28_DeletedOnlyAfterSuccess ==
    [][ /\ DeletesSentinel
              => /\ mon.pc = "remove"
                 /\ platform.op = "schedule"
                 /\ platform.ok
                 /\ IsDecimalPositive(Strip(schedFile))
                 /\ platform.seconds = ToInt(Strip(schedFile))
        /\ (InvokesPlatformShutdown /\ ~platform'.ok)
              => (schedFile' = schedFile /\ mon'.pc # "remove") ]_vars

\* C29: the monitor survives every failure inside a cycle (directory that
\* cannot be listed, sentinel that cannot be read or deleted, platform call
\* that fails): after every cycle it sleeps and starts another one, so it
\* sleeps and lists the directory again and again for ever
C29_MonitorRunsForever ==
    /\ []<>(mon.pc = "sleep")
    /\ []<>(mon.pc = "list")

\* the monitor is inside a platform call: schedule_shutdown, or
\* cancel_shutdown for a cancel sentinel it listed
InPlatformCall == mon.pc = "invoke" \/ (mon.pc = "cancel" /\ mon.sawCancel) \/ mon.pc = "blocked"

\* C30: the monitor never blocks for ever on a platform shutdown or cancel
\* call: even when the call never returns, the monitor reaches its next scan
C30_PlatformCallNeverBlocks == InPlatformCall ~> (mon.pc = "list")

\* this step is a request handler's step on the control channel
ControlHandlerStep == ctl = NoCtl /\ ctl' # NoCtl

\* this step calls schedule_shutdown or cancel_shutdown
PlatformCallStep == platform' # platform \/ (mon'.pc = "blocked" /\ mon.pc # "blocked")

\* C31: the platform shutdown and cancel operations are called by the monitor
\* only: a step of the /api/shutdown or /api/cancel_shutdown handler writes
\* its sentinel and the status text and touches neither the platform nor the
\* monitor, and every platform call is a monitor step; the handlers do not
\* wait for the monitor, so they can answer while it is inside a platform call
C31_PlatformCallsOnlyInMonitor ==
    /\ [][ /\ ControlHandlerStep => (platform' = platform /\ mon' = mon)
           /\ PlatformCallStep
                 => (ctl' = ctl /\ (mon.pc = "invoke" \/ (mon.pc = "cancel" /\ mon.sawCancel))) ]_vars
    /\ [](ctl = NoCtl => ENABLED api_cancel_shutdown)
    /\ [](ctl = NoCtl => ENABLED api_shutdown(Json("int", 5)))

\* a cancel request was answered 200 while the monitor is held inside a
\* platform shutdown call that does not return
C31_Witness ==
    /\ mon.pc = "blocked"
    /\ platform.op = "schedule"
    /\ ctl.call = "cancel_shutdown"
    /\ ctl.status = 200
    /\ cancelFile

\* ------------------------------------------------------------------------
\* Request handlers running concurrently: ThreadedHTTPServer gives every
\* connection a thread of its own, and the statements of do_POST and of the
\* page renderers interleave
\* ------------------------------------------------------------------------
WorkerFrame ==
    UNCHANGED <<shared_dirs, dirs, req, resp, stream, mon, platform, ctl, accepted, mailVars,
                command, monitors, share_btn>>

\* /api/shutdown up to the end of the first with-block: the body is parsed
\* and checked, then 关机.txt is written; no lock is held
w_shutdown_write(w, seconds) ==
    /\ workers[w].pc = "idle"
    /\ IF ~isinstance_int(seconds) \/ seconds.v <= 0
       THEN /\ workers' = [workers EXCEPT ![w] = [IdleWorker EXCEPT !.pc = "done", !.call = "shutdown",
                                                     !.seconds = seconds,
                                                     !.status = CtlErrorSent(400)]]
            /\ UNCHANGED schedFile
       ELSE /\ schedFile' = str(seconds)
            /\ workers' = [workers EXCEPT ![w] = [IdleWorker EXCEPT !.pc = "lock", !.call = "shutdown",
                                                     !.seconds = seconds]]
    /\ UNCHANGED <<files, cancelFile, shutdown_status, shutdown_lock>>
    /\ WorkerFrame

\* /api/cancel_shutdown up to the end of the first with-block: 取消关机.txt is
\* written; no lock is held
w_cancel_write(w) ==
    /\ workers[w].pc = "idle"
    /\ cancelFile' = TRUE
    /\ workers' = [workers EXCEPT ![w] = [IdleWorker EXCEPT !.pc = "lock", !.call = "cancel_shutdown"]]
    /\ UNCHANGED <<files, schedFile, shutdown_status, shutdown_lock>>
    /\ WorkerFrame

\* /api/shutdown_status arrives
w_status_begin(w) ==
    /\ workers[w].pc = "idle"
    /\ workers' = [workers EXCEPT ![w] = [IdleWorker EXCEPT !.pc = "lock", !.call = "shutdown_status"]]
    /\ UNCHANGED <<files, schedFile, cancelFile, shutdown_status, shutdown_lock>>
    /\ WorkerFrame

\* with shutdown_lock: the thread waits until the lock is free and takes it
w_acquire(w) ==
    /\ workers[w].pc = "lock"
    /\ shutdown_lock = "free"
    /\ shutdown_lock' = w
    /\ workers' = [workers EXCEPT ![w].pc = "locked"]
    /\ UNCHANGED <<files, schedFile, cancelFile, shutdown_status>>
    /\ WorkerFrame

\* the body of the with-block and its exit: shutdown_status is assigned
\* (schedule, cancel) or read (status endpoint), then the lock is released
w_locked(w) ==
    /\ workers[w].pc = "locked"
    /\ shutdown_status' = CASE workers[w].call = "shutdown" -> ScheduledStatus(workers[w].seconds)
                            [] workers[w].call = "cancel_shutdown" -> sCancelled
                            [] OTHER -> shutdown_status
    /\ shutdown_lock' = "free"
    /\ workers' = [workers EXCEPT ![w].pc = "respond", ![w].accessed = TRUE,
                                  ![w].held = (shutdown_lock = w),
                                  ![w].content = IF workers[w].call = "shutdown_status"
                                                 THEN shutdown_status ELSE <<>>]
    /\ UNCHANGED <<files, schedFile, cancelFile>>
    /\ WorkerFrame

\* send_response(200), the headers and the JSON body
w_respond(w) ==
    /\ workers[w].pc = "respond"
    /\ workers' = [workers EXCEPT ![w].pc = "done", ![w].status = send_response(200)]
    /\ UNCHANGED <<files, schedFile, cancelFile, shutdown_status, shutdown_lock>>
    /\ WorkerFrame

\* list_shared_dirs and list_directory: the f-string of the shutdown-status
\* <div> reads the global shutdown_status; no with-block surrounds it
w_render(w, view) ==
    /\ workers[w].pc = "idle"
    /\ workers' = [workers EXCEPT ![w] = [IdleWorker EXCEPT !.pc = "respond", !.call = view,
                                                 !.content = shutdown_status,
                                                 !.accessed = TRUE,
                                                 !.held = (shutdown_lock = w)]]
    /\ UNCHANGED <<files, schedFile, cancelFile, shutdown_status, shutdown_lock>>
    /\ WorkerFrame

\* the exchange is over and the thread ends
w_finish(w) ==
    /\ workers[w].pc = "done"
    /\ workers' = [workers EXCEPT ![w] = IdleWorker]
    /\ UNCHANGED <<files, schedFile, cancelFile, shutdown_status, shutdown_lock>>
    /\ WorkerFrame

WorkerSeconds == {Json("int", 5), Json("int", 30), Json("int", 0)}

NextWorkers ==
    \E w \in WorkerIds :
        \/ \E seconds \in WorkerSeconds : w_shutdown_write(w, seconds)
        \/ w_cancel_write(w)
        \/ w_status_begin(w)
        \/ w_acquire(w)
        \/ w_locked(w)
        \/ w_respond(w)
        \/ \E view \in {"list_shared_dirs", "list_directory"} : w_render(w, view)
        \/ w_finish(w)

SpecWorkers == InitControl /\ [][NextWorkers]_vars

\* ------------------------------------------------------------------------
\* Claims about concurrent handlers
\* ------------------------------------------------------------------------
\* C32: every read and every write of shutdown_status, by the schedule and
\* cancel handlers, the status endpoint and the two page renderers, is made
\* by a thread that holds shutdown_lock at that moment
C32_StatusAccessUnderLock ==
    /\ \A w \in WorkerIds : workers[w].accessed => workers[w].held
    /\ shutdown_lock # "free" => workers[shutdown_lock].pc = "locked"

\* no /api/shutdown or /api/cancel_shutdown handler is between its sentinel
\* write and its status update
NoControlHandlerMidway ==
    \A w \in WorkerIds :
        workers[w].call \in {"shutdown", "cancel_shutdown"} => workers[w].pc \notin {"lock", "locked"}

\* the status text announces a shutdown in some number of seconds
ShowsSeconds == Len(shutdown_status) > 0 /\ shutdown_status[1] = sScheduledHead[1]

\* C34: whenever no schedule or cancel handler is mid-execution, a status text
\* that shows a number of seconds shows the content of the pending schedule
\* sentinel, for every interleaving of concurrently running handlers: the
\* sentinel write and the status update of one request are not split by the
\* write and update of another
C34_StatusMatchesSentinel ==
    (NoControlHandlerMidway /\ schedFile # None /\ ShowsSeconds)
        => shutdown_status = sScheduledHead \o schedFile \o sScheduledTail

\* C35: no schedule command is lost: the monitor never deletes a schedule
\* sentinel whose content at that moment differs from the value it has just
\* passed to the platform shutdown operation, whatever a handler writes
\* between the monitor's read and its delete; so a request answered 200
\* whose sentinel no later request overwrites is executed with its own value
C35_NoLostSchedule ==
    [][ DeletesSentinel
          => /\ Strip(schedFile) = mon.content
             /\ accepted.kind = "schedule" => platform.seconds = accepted.seconds.v ]_vars

\* ------------------------------------------------------------------------
\* Concurrent create calls: /api/create_file and /api/upload statement by
\* statement
\* ------------------------------------------------------------------------
CreateFrame ==
    UNCHANGED <<shared_dirs, dirs, req, resp, stream, ctlVars, mailVars, command, shutdown_lock,
                monitors, share_btn>>

\* /api/create_file or /api/upload up to the os.path.exists test: the name
\* checks, the target directory and the test itself
w_create_check(w, call, referer, name, content) ==
    LET filename == Strip(name)
        filepath == TargetPath(referer, filename)
        status == IF call = "create_file" /\ ~EndsWith(filename, sTxt) THEN 400
                  ELSE IF call = "upload" /\ filename = <<>> THEN 400
                  ELSE IF UnsafeName(filename) THEN 400
                  ELSE CreateStatus(filepath)
    IN /\ workers[w].pc = "idle"
       /\ workers' = [workers EXCEPT ![w] =
                         IF status = 201
                         THEN [IdleWorker EXCEPT !.pc = "write", !.call = call,
                                                 !.target = abspath(filepath), !.content = content]
                         ELSE [IdleWorker EXCEPT !.pc = "done", !.call = call,
                                                 !.status = ApiStatusSent(status)]]
       /\ UNCHANGED files
       /\ CreateFrame

\* with open(filepath, 'w' or 'wb') as f: f.write(...), then send_response(201):
\* the file is created, or truncated when it exists by now
w_create_write(w) ==
    /\ workers[w].pc = "write"
    /\ files' = (workers[w].target :> workers[w].content) @@ files
    /\ workers' = [workers EXCEPT ![w].pc = "done", ![w].status = send_response(201)]
    /\ CreateFrame

\* the exchange is over and the thread ends
w_create_finish(w) ==
    /\ workers[w].pc = "done"
    /\ workers' = [workers EXCEPT ![w] = IdleWorker]
    /\ UNCHANGED files
    /\ CreateFrame

CreateNames == {<<"x", ".", "t", "x", "t">>, <<"f">>}

NextCreateRace ==
    \E w \in WorkerIds :
        \/ \E call \in {"create_file", "upload"}, name \in CreateNames, content \in Contents :
              w_create_check(w, call, <<>>, name, content)
        \/ w_create_write(w)
        \/ w_create_finish(w)

SpecCreateRace == InitControl /\ [][NextCreateRace]_vars

\* C36: create operations never overwrite: no step of a create_file or upload
\* request replaces the content of a file that exists, and of the requests
\* running at the same time that name the same target at most one is
\* answered 201
C36_CreateNeverOverwrites ==
    [][ /\ \A p \in DOMAIN files : p \in DOMAIN files' /\ files'[p] = files[p]
        /\ \A v, w \in WorkerIds :
              (v # w /\ workers'[v].status = 201 /\ workers'[w].status = 201)
                 => workers'[v].target # workers'[w].target ]_vars

\* ------------------------------------------------------------------------
\* Starting the server: FolderShareWindow.start_sharing and ServerThread.run
\* ------------------------------------------------------------------------
MaxAttempts == 2

\* the share button is clicked: start_sharing installs the directories,
\* disables the button and starts a ServerThread; its run() first starts a
\* shutdown_monitor daemon thread and then tries to bind the server; when
\* that raises (port in use, permission denied) server_error is emitted and
\* on_server_error enables the button again
ServerThread_run(valid_paths, ok) ==
    /\ share_btn
    /\ monitors < MaxAttempts
    /\ valid_paths # <<>>
    /\ \A i \in 1..Len(valid_paths) : isdir(valid_paths[i])
    /\ shared_dirs' = valid_paths
    /\ monitors' = monitors + 1
    /\ share_btn' = ~ok
    /\ UNCHANGED <<dirs, files, req, resp, stream, ctlVars, mailVars, command, shutdown_lock,
                   workers>>

NextStart ==
    \/ \E ok \in BOOLEAN : ServerThread_run(<<pM>>, ok)
    \/ NextControl

SpecStart == InitControl /\ [][NextStart]_vars

\* C37: at most one monitor thread exists at any time, over every sequence
\* of start-sharing attempts, those whose server start fails and is retried
\* included
C37_SingleMonitor == monitors <= 1

ConfirmAfterCheck == mail = NoMail /\ mail'.call = "confirm_message" /\ mhist.pending

\* C39: /api/confirm_message only clears a ToMobile message that an earlier
\* /api/check_message returned: when the browser's confirmation removes the
\* message file, the message in it has been returned by a check, also when
\* the computer sent a new message between the check and the confirmation
C39_ConfirmClearsDeliveredOnly ==
    [][ (ConfirmAfterCheck /\ text_message # None)
          => mhist.delivered["ToMobile"] >= 1 ]_vars

\* the monitor has consumed every sentinel the handlers wrote
SentinelsProcessed == ~cancelFile /\ schedFile = None

\* the last platform operation left a shutdown scheduled
ShutdownLeftScheduled == platform.op = "schedule" /\ platform.ok

\* C33: cancel wins over an earlier schedule: when /api/cancel_shutdown is the
\* last request accepted, also when the sentinel of an earlier /api/shutdown
\* was still waiting beside the cancel sentinel, then once the monitor's
\* cycles have consumed both sentinels no platform shutdown is left scheduled
\* (the last platform operation invoked is not "schedule"), as the status
\* text "cancelled" says.
C33_CancelWinsOverSchedule ==
    (accepted.kind = "cancel" /\ SentinelsProcessed) => ~ShutdownLeftScheduled

====
